---- MODULE Spec2Model ----
(***************************************************************************)
(* Token-based authentication and session gating of the webhook server:    *)
(* key derivation, the compact legacy token, the HS256 session JWT, the    *)
(* page gate (verifyAccessOrPasswordPage), the upload API gate             *)
(* (verifyJWTForAPI) and the GET / POST handlers that call them.           *)
(* Spec, SpecUser and SpecAll run the request handlers; SpecJwt and        *)
(* SpecCompact call the two token formats' functions directly (variable    *)
(* lab) on created, rewritten and re-signed tokens.                        *)
(*                                                                         *)
(* HMAC-SHA256 is modelled symbolically as an injective function of its    *)
(* key and message.  An optional JSON number is a set holding at most one  *)
(* integer ({} = the attribute is missing); an optional string is "" when  *)
(* missing (the code tests both by truthiness).                            *)
(***************************************************************************)
EXTENDS Integers, Sequences, FiniteSets, TLC

VARIABLES instances, webhooks, users, submits, tick, jar, rq, served, lab

vars == <<instances, webhooks, users, submits, tick, jar, rq, served, lab>>

\* ------------------------------------------------------------------ bounds
\* highest value the revocation counter (tokenVersion) is bumped to
MaxCounter == 1
\* number of clock advances
MaxTick == 2
\* number of requests served in one behaviour
MaxRequests == 2

\* ------------------------------------------------------- program constants
COOKIE_NAME == "tgl_wi_auth"
COOKIE_TTL_SEC == 60 * 60 * 24 * 7
TOKEN_REFRESH_BUFFER_SEC == 5 * 60
\* clockSkewSec passed by both gates to verifyJwtHs256
ClockSkewSec == 60
\* wire length of a compact token: 1 + 1 + 4 + 4 + 8 + 16
CompactLen == 1 + 1 + 4 + 4 + 8 + 16
\* the TTL value verifyCompactToken exempts from expiry
BypassTtl == 3600

Only(S) == CHOOSE x \in S : TRUE

\* x >>> 0 of an optional counter: undefined >>> 0 = 0; the counters of the
\* model stay below 2^32, where n >>> 0 = n
ToUint32(x) == IF x = {} THEN 0 ELSE Only(x)

\* parseInt(x) of an optional number: NaN ({}) when missing, n otherwise
ParseInt(x) == x

\* x || 0 of an optional number
OrZero(x) == IF x = {} THEN {0} ELSE x

\* ------------------------------------------------------------ key derivation
NoKey == [secret |-> "", msg |-> ""]

\* createHmac("sha256", key).update(msg).digest()
Hmac(secret, msg) == [secret |-> secret, msg |-> msg]

\* deriveSigningKey: [ok, key]; ok = FALSE when it throws TypeError
deriveSigningKey(clientSecret, instanceAuthKey) ==
    IF clientSecret = "" \/ instanceAuthKey = ""
    THEN [ok |-> FALSE, key |-> NoKey]
    ELSE [ok |-> TRUE, key |-> Hmac(clientSecret, instanceAuthKey)]

\* a deriveCookieSigningKey without the domain-separation label
deriveCookieSigningKeyNoLabel(clientSecret, instanceId) ==
    IF clientSecret = "" \/ instanceId = ""
    THEN [ok |-> FALSE, key |-> NoKey]
    ELSE [ok |-> TRUE, key |-> Hmac(clientSecret, instanceId)]

\* deriveCookieSigningKey: the message is "JWT_COOKIE|" followed by the id
deriveCookieSigningKey(clientSecret, instanceId) ==
    IF clientSecret = "" \/ instanceId = ""
    THEN [ok |-> FALSE, key |-> NoKey]
    ELSE [ok |-> TRUE, key |-> Hmac(clientSecret, "JWT_COOKIE|" \o instanceId)]

\* --------------------------------------------------------- compact token
\* a tag that would leave the counter out of the MAC input
CompactTagNoCounter(signingKey, ver, flags, iat, expDelta, nonce, instanceId, tv) ==
    [key |-> signingKey, ver |-> ver, flags |-> flags, iat |-> iat,
     expDelta |-> expDelta, nonce |-> nonce, iid |-> instanceId, tv |-> 0]

\* a tag that would leave the nonce out of the MAC input
CompactTagNoNonce(signingKey, ver, flags, iat, expDelta, nonce, instanceId, tv) ==
    [key |-> signingKey, ver |-> ver, flags |-> flags, iat |-> iat,
     expDelta |-> expDelta, nonce |-> "", iid |-> instanceId, tv |-> tv]

\* tag = HMAC(signingKey, ver|flags|iat|expDelta|nonce|instanceId|u32(tv))[0:16]
CompactTag(signingKey, ver, flags, iat, expDelta, nonce, instanceId, tv) ==
    [key |-> signingKey, ver |-> ver, flags |-> flags, iat |-> iat,
     expDelta |-> expDelta, nonce |-> nonce, iid |-> instanceId, tv |-> tv]

\* a makeCompactToken that would never set the expiry flag
makeCompactTokenNoFlag(signingKey, instanceId, tokenVersion, iat, ttlSeconds, nonce) ==
    LET ver == 1
        hasExp == ttlSeconds > 0
        flags == 0
        expDelta == IF hasExp THEN ttlSeconds ELSE 0
    IN [len |-> CompactLen, ver |-> ver, flags |-> flags, iat |-> iat,
        expDelta |-> expDelta, nonce |-> nonce,
        tag |-> CompactTag(signingKey, ver, flags, iat, expDelta, nonce,
                           instanceId, ToUint32(tokenVersion))]

\* makeCompactToken; the random nonce is a parameter
makeCompactToken(signingKey, instanceId, tokenVersion, iat, ttlSeconds, nonce) ==
    LET ver == 1
        hasExp == ttlSeconds > 0
        flags == IF hasExp THEN 1 ELSE 0
        expDelta == IF hasExp THEN ttlSeconds ELSE 0
    IN [len |-> CompactLen, ver |-> ver, flags |-> flags, iat |-> iat,
        expDelta |-> expDelta, nonce |-> nonce,
        tag |-> CompactTag(signingKey, ver, flags, iat, expDelta, nonce,
                           instanceId, ToUint32(tokenVersion))]

\* a verifyCompactToken that would compare the tag before reading the version
verifyCompactTokenMacFirst(token, signingKey, instanceId, tokenVersion, nowSec) ==
    IF token.len # CompactLen
    THEN [ok |-> FALSE, reason |-> "len", iat |-> {}, exp |-> {}]
    ELSE IF CompactTag(signingKey, token.ver, token.flags, token.iat,
                       token.expDelta, token.nonce, instanceId,
                       ToUint32(tokenVersion)) # token.tag
    THEN [ok |-> FALSE, reason |-> "mac", iat |-> {}, exp |-> {}]
    ELSE IF token.ver # 1
    THEN [ok |-> FALSE, reason |-> "ver", iat |-> {}, exp |-> {}]
    ELSE IF token.flags % 2 = 1
    THEN LET exp == token.iat + token.expDelta
         IN IF token.expDelta = BypassTtl
            THEN [ok |-> TRUE, reason |-> "", iat |-> {}, exp |-> {exp}]
            ELSE IF nowSec > exp
            THEN [ok |-> FALSE, reason |-> "exp", iat |-> {}, exp |-> {}]
            ELSE [ok |-> TRUE, reason |-> "", iat |-> {token.iat}, exp |-> {exp}]
    ELSE [ok |-> TRUE, reason |-> "", iat |-> {token.iat}, exp |-> {}]

\* a verifyCompactToken that would reject a token at the second it expires
verifyCompactTokenExpEarly(token, signingKey, instanceId, tokenVersion, nowSec) ==
    IF token.len # CompactLen
    THEN [ok |-> FALSE, reason |-> "len", iat |-> {}, exp |-> {}]
    ELSE IF token.ver # 1
    THEN [ok |-> FALSE, reason |-> "ver", iat |-> {}, exp |-> {}]
    ELSE IF CompactTag(signingKey, token.ver, token.flags, token.iat,
                       token.expDelta, token.nonce, instanceId,
                       ToUint32(tokenVersion)) # token.tag
    THEN [ok |-> FALSE, reason |-> "mac", iat |-> {}, exp |-> {}]
    ELSE IF token.flags % 2 = 1
    THEN LET exp == token.iat + token.expDelta
         IN IF token.expDelta = BypassTtl
            THEN [ok |-> TRUE, reason |-> "", iat |-> {}, exp |-> {exp}]
            ELSE IF nowSec >= exp
            THEN [ok |-> FALSE, reason |-> "exp", iat |-> {}, exp |-> {}]
            ELSE [ok |-> TRUE, reason |-> "", iat |-> {token.iat}, exp |-> {exp}]
    ELSE [ok |-> TRUE, reason |-> "", iat |-> {token.iat}, exp |-> {}]

\* a verifyCompactToken without the exemption of the TTL 3600
verifyCompactTokenNoBypass(token, signingKey, instanceId, tokenVersion, nowSec) ==
    IF token.len # CompactLen
    THEN [ok |-> FALSE, reason |-> "len", iat |-> {}, exp |-> {}]
    ELSE IF token.ver # 1
    THEN [ok |-> FALSE, reason |-> "ver", iat |-> {}, exp |-> {}]
    ELSE IF CompactTag(signingKey, token.ver, token.flags, token.iat,
                       token.expDelta, token.nonce, instanceId,
                       ToUint32(tokenVersion)) # token.tag
    THEN [ok |-> FALSE, reason |-> "mac", iat |-> {}, exp |-> {}]
    ELSE IF token.flags % 2 = 1
    THEN LET exp == token.iat + token.expDelta
         IN IF nowSec > exp
            THEN [ok |-> FALSE, reason |-> "exp", iat |-> {}, exp |-> {}]
            ELSE [ok |-> TRUE, reason |-> "", iat |-> {token.iat}, exp |-> {exp}]
    ELSE [ok |-> TRUE, reason |-> "", iat |-> {token.iat}, exp |-> {}]

\* verifyCompactToken: { ok, reason, iat?, exp? }
verifyCompactToken(token, signingKey, instanceId, tokenVersion, nowSec) ==
    IF token.len # CompactLen
    THEN [ok |-> FALSE, reason |-> "len", iat |-> {}, exp |-> {}]
    ELSE IF token.ver # 1
    THEN [ok |-> FALSE, reason |-> "ver", iat |-> {}, exp |-> {}]
    ELSE IF CompactTag(signingKey, token.ver, token.flags, token.iat,
                       token.expDelta, token.nonce, instanceId,
                       ToUint32(tokenVersion)) # token.tag
    THEN [ok |-> FALSE, reason |-> "mac", iat |-> {}, exp |-> {}]
    ELSE IF token.flags % 2 = 1
    THEN LET exp == token.iat + token.expDelta
         IN IF token.expDelta = BypassTtl
            THEN [ok |-> TRUE, reason |-> "", iat |-> {}, exp |-> {exp}]
            ELSE IF nowSec > exp
            THEN [ok |-> FALSE, reason |-> "exp", iat |-> {}, exp |-> {}]
            ELSE [ok |-> TRUE, reason |-> "", iat |-> {token.iat}, exp |-> {exp}]
    ELSE [ok |-> TRUE, reason |-> "", iat |-> {token.iat}, exp |-> {}]

\* ------------------------------------------------------------ session JWT
\* A token is its dot-separated segments: the number of segments, the header
\* and payload as base64url(JSON) decodes them (dec = "ok", or "bad" when the
\* JSON does not parse, or "null" when it parses to null, or "scalar" when it
\* parses to a number, string or boolean, whose properties all read undefined),
\* and the signature.  Reading a property of null throws, which the catch
\* turns into "parse".
JwtHeader == [dec |-> "ok", alg |-> "HS256", typ |-> "JWT"]

NoPayload ==
    [dec |-> "bad", iid |-> "", tv |-> {}, iat |-> {}, iss |-> "",
     aud |-> "", exp |-> {}, nbf |-> {}]

\* HMAC(key, "<header>.<payload>")
JwtSig(key, h, p) == [key |-> key, h |-> h, p |-> p]

\* a createJwtHs256 that would count the expiry from 0 instead of from iat
createJwtHs256ExpFromZero(key, iid, tv, ttlSec, iss, aud, iat) ==
    LET body == [dec |-> "ok", iid |-> iid, tv |-> {tv}, iat |-> {iat},
                 iss |-> iss, aud |-> aud,
                 exp |-> IF ttlSec > 0 THEN {ttlSec} ELSE {},
                 nbf |-> {}]
    IN [parts |-> 3, h |-> JwtHeader, p |-> body, s |-> JwtSig(key, JwtHeader, body)]

\* createJwtHs256 with payload = { iid, tv }
createJwtHs256(key, iid, tv, ttlSec, iss, aud, iat) ==
    LET body == [dec |-> "ok", iid |-> iid, tv |-> {tv}, iat |-> {iat},
                 iss |-> iss, aud |-> aud,
                 exp |-> IF ttlSec > 0 THEN {iat + ttlSec} ELSE {},
                 nbf |-> {}]
    IN [parts |-> 3, h |-> JwtHeader, p |-> body, s |-> JwtSig(key, JwtHeader, body)]

\* a verifyJwtHs256 that would compare the signature before reading the header
verifyJwtHs256SigFirst(token, key, iss, aud, now, clockSkewSec) ==
    LET fail(r) == [ok |-> FALSE, reason |-> r, payload |-> NoPayload]
    IN IF token.parts # 3 THEN fail("format")
       ELSE IF JwtSig(key, token.h, token.p) # token.s THEN fail("sig")
       ELSE IF token.h.dec = "bad" THEN fail("parse")
       ELSE IF token.h.dec = "null" \/ token.h.alg # "HS256" \/ token.h.typ # "JWT"
       THEN fail("header")
       ELSE IF token.p.dec \in {"bad", "null"} THEN fail("parse")
       ELSE IF iss # "" /\ token.p.iss # iss THEN fail("iss")
       ELSE IF aud # "" /\ token.p.aud # aud THEN fail("aud")
       ELSE IF \E n \in token.p.nbf : now + clockSkewSec < n THEN fail("nbf")
       ELSE IF \E e \in token.p.exp : now - clockSkewSec >= e THEN fail("exp")
       ELSE [ok |-> TRUE, reason |-> "", payload |-> token.p]

\* a verifyJwtHs256 that would still accept a token at the second it expires
verifyJwtHs256ExpStrict(token, key, iss, aud, now, clockSkewSec) ==
    LET fail(r) == [ok |-> FALSE, reason |-> r, payload |-> NoPayload]
    IN IF token.parts # 3 THEN fail("format")
       ELSE IF token.h.dec = "bad" THEN fail("parse")
       ELSE IF token.h.dec = "null" \/ token.h.alg # "HS256" \/ token.h.typ # "JWT"
       THEN fail("header")
       ELSE IF JwtSig(key, token.h, token.p) # token.s THEN fail("sig")
       ELSE IF token.p.dec \in {"bad", "null"} THEN fail("parse")
       ELSE IF iss # "" /\ token.p.iss # iss THEN fail("iss")
       ELSE IF aud # "" /\ token.p.aud # aud THEN fail("aud")
       ELSE IF \E n \in token.p.nbf : now + clockSkewSec < n THEN fail("nbf")
       ELSE IF \E e \in token.p.exp : now - clockSkewSec > e THEN fail("exp")
       ELSE [ok |-> TRUE, reason |-> "", payload |-> token.p]

\* verifyJwtHs256: { ok, reason, payload }
verifyJwtHs256(token, key, iss, aud, now, clockSkewSec) ==
    LET fail(r) == [ok |-> FALSE, reason |-> r, payload |-> NoPayload]
    IN IF token.parts # 3 THEN fail("format")
       ELSE IF token.h.dec = "bad" THEN fail("parse")
       ELSE IF token.h.dec = "null" \/ token.h.alg # "HS256" \/ token.h.typ # "JWT"
       THEN fail("header")
       ELSE IF JwtSig(key, token.h, token.p) # token.s THEN fail("sig")
       ELSE IF token.p.dec \in {"bad", "null"} THEN fail("parse")
       ELSE IF iss # "" /\ token.p.iss # iss THEN fail("iss")
       ELSE IF aud # "" /\ token.p.aud # aud THEN fail("aud")
       ELSE IF \E n \in token.p.nbf : now + clockSkewSec < n THEN fail("nbf")
       ELSE IF \E e \in token.p.exp : now - clockSkewSec >= e THEN fail("exp")
       ELSE [ok |-> TRUE, reason |-> "", payload |-> token.p]

\* ----------------------------------------------------------------- cookies
cookieNameFor(instanceId) == COOKIE_NAME \o "." \o instanceId

\* A cookie value on the wire: the text and whether it holds a malformed
\* percent escape.  encodeURIComponent leaves a JWT (base64url and dots) as it
\* is; decodeURIComponent throws URIError on a malformed escape.
NoJwt == [parts |-> 0, h |-> JwtHeader, p |-> NoPayload, s |-> JwtSig(NoKey, JwtHeader, NoPayload)]

encodeURIComponent(token) == [text |-> token, esc |-> "none"]

decodeURIComponent(v) ==
    IF v.esc = "bad" THEN [ok |-> FALSE, text |-> NoJwt] ELSE [ok |-> TRUE, text |-> v.text]

\* buildAuthCookie: name=encodeURIComponent(token); Max-Age; Path; ...
buildAuthCookie(name, token, maxAgeSec, path) ==
    [name |-> name, value |-> encodeURIComponent(token), maxAge |-> maxAgeSec,
     path |-> path]

\* --------------------------------------------------------------- the event
\* The Cookie header as the handlers obtain it (event.cookies joined, or
\* headers.cookie): the session cookie sent under each instance's cookie name,
\* the two Cognito cookies, and whether some other pair of the header holds a
\* malformed percent escape.
NoCookie == [text |-> NoJwt, esc |-> "absent"]

NoIdCookie == [esc |-> "absent"]

\* getCookieMap: decodeURIComponent of every value; [ok = FALSE] = it throws
getCookieMap(cookies) ==
    LET bad == \/ cookies.junk
               \/ \E n \in DOMAIN cookies.session : cookies.session[n].esc = "bad"
               \/ cookies.idToken.esc = "bad"
               \/ cookies.refreshToken.esc = "bad"
    IN [ok |-> ~bad,
        session |-> [n \in DOMAIN cookies.session |->
                        IF cookies.session[n].esc = "none"
                        THEN decodeURIComponent(cookies.session[n]).text
                        ELSE NoJwt],
        has |-> [n \in DOMAIN cookies.session |-> cookies.session[n].esc = "none"],
        idToken |-> cookies.idToken.esc = "none",
        refreshToken |-> cookies.refreshToken.esc = "none"]

\* event.queryStringParameters?.token as a truthy value
QsPresent(event) == event.qs.kind = "token"

\* ------------------------------------------------- external collaborators
\* getClientSecret(clientId): the secret of the tenant, or a throw when the
\* secret store does not answer (env.secretUp = FALSE)
SecretOf(clientId) == "secret-" \o clientId

getClientSecret(clientId, env) ==
    [ok |-> env.secretUp, value |-> IF env.secretUp THEN SecretOf(clientId) ELSE ""]

\* loadUser(userId): the record, or null ([found |-> FALSE])
NoUser == [found |-> FALSE, type |-> "", ClientID |-> ""]

loadUser(userId) ==
    IF userId \in DOMAIN users
    THEN [found |-> TRUE, type |-> users[userId].type, ClientID |-> users[userId].ClientID]
    ELSE NoUser

\* isTokenExpiringSoon(payload)
isTokenExpiringSoon(payload, now) ==
    \/ payload.exp = {}
    \/ Only(payload.exp) = 0
    \/ Only(payload.exp) - now < TOKEN_REFRESH_BUFFER_SEC

\* ------------------------------------------------------------ Cognito check
NoTokens == [present |-> FALSE, idToken |-> "", refreshToken |-> ""]

\* verifyCognitoAuthAndAuthorization.  env.verify1 / env.refresh / env.verify2
\* are the identity provider's answers to verifyCognitoToken(idToken),
\* refreshCognitoTokens(refreshToken) and verifyCognitoToken(new idToken).
\* A field the returned object does not carry is "undefined".
verifyCognitoAuthAndAuthorization(event, instance, webhook, env, now) ==
    LET cm == getCookieMap(event.cookies)
        refreshed(calls) ==
            [threw |-> FALSE, ok |-> TRUE, authenticated |-> TRUE,
             authorized |-> "undefined",
             tokens |-> [present |-> TRUE, idToken |-> env.refresh.idToken,
                         refreshToken |-> "rt"],
             user |-> NoUser, sub |-> env.verify2.sub, calls |-> calls]
        relogin(calls) ==
            [threw |-> FALSE, ok |-> FALSE, authenticated |-> FALSE,
             authorized |-> "false", tokens |-> NoTokens, user |-> NoUser,
             sub |-> "", calls |-> calls]
    IN IF ~cm.ok
       THEN [threw |-> TRUE, ok |-> FALSE, authenticated |-> FALSE,
             authorized |-> "undefined", tokens |-> NoTokens, user |-> NoUser,
             sub |-> "", calls |-> <<>>]
       ELSE IF ~cm.idToken THEN relogin(<<>>)
       ELSE IF ~env.verify1.ok
       THEN IF cm.refreshToken
            THEN IF env.refresh.ok
                 THEN IF env.verify2.ok
                      THEN refreshed(<<"cognito.verify", "cognito.refresh", "cognito.verify">>)
                      ELSE relogin(<<"cognito.verify", "cognito.refresh", "cognito.verify">>)
                 ELSE relogin(<<"cognito.verify", "cognito.refresh">>)
            ELSE relogin(<<"cognito.verify">>)
       ELSE IF cm.refreshToken /\ isTokenExpiringSoon(env.verify1, now)
               /\ env.refresh.ok /\ env.verify2.ok
       THEN refreshed(<<"cognito.verify", "cognito.refresh", "cognito.verify">>)
       ELSE LET pre == IF cm.refreshToken /\ isTokenExpiringSoon(env.verify1, now)
                       THEN IF env.refresh.ok
                            THEN <<"cognito.verify", "cognito.refresh", "cognito.verify">>
                            ELSE <<"cognito.verify", "cognito.refresh">>
                       ELSE <<"cognito.verify">>
                user == loadUser(env.verify1.sub)
                isAuthorized == user.type = "admin" \/ user.ClientID = webhook.ClientID
            IN IF ~user.found
               THEN [threw |-> FALSE, ok |-> FALSE, authenticated |-> TRUE,
                     authorized |-> "false", tokens |-> NoTokens, user |-> NoUser,
                     sub |-> env.verify1.sub, calls |-> pre \o <<"users.get">>]
               ELSE [threw |-> FALSE, ok |-> isAuthorized, authenticated |-> TRUE,
                     authorized |-> IF isAuthorized THEN "true" ELSE "false",
                     tokens |-> NoTokens, user |-> user,
                     sub |-> env.verify1.sub, calls |-> pre \o <<"users.get">>]

\* ------------------------------------------------------------ the page gate
NoGate ==
    [threw |-> FALSE, ok |-> FALSE, html |-> "", reason |-> "",
     cognitoTokens |-> NoTokens, user |-> NoUser, calls |-> <<>>, branch |-> ""]

Allow(branch, calls) ==
    [NoGate EXCEPT !.ok = TRUE, !.branch = branch, !.calls = calls]

Deny(branch, html, reason, calls) ==
    [NoGate EXCEPT !.html = html, !.reason = reason, !.branch = branch,
                   !.calls = calls]

Throw(branch, calls) == [NoGate EXCEPT !.threw = TRUE, !.branch = branch, !.calls = calls]

\* lines 79-98: the ?token branch
LegacyBranch(instance, webhook, event, env, now) ==
    LET clientSecret == getClientSecret(webhook.ClientID, env)
        legacyKey == deriveSigningKey(clientSecret.value, instance.authKey)
        res == verifyCompactToken(event.qs.tok, legacyKey.key, instance.id,
                                  {ToUint32(instance.tokenVersion)}, now)
    IN IF clientSecret.ok /\ legacyKey.ok /\ res.ok
       THEN Allow("legacy", <<"secrets.get">>)
       ELSE Deny("legacy", "PASSWORD_PAGE_HTML", "", <<"secrets.get">>)

\* the cookie branch without the tokenVersion comparison
CookieBranchNoTv(instance, webhook, cookieToken, env, now) ==
    LET clientSecret == getClientSecret(webhook.ClientID, env)
        cookieKey == deriveCookieSigningKey(clientSecret.value, instance.id)
        v == verifyJwtHs256(cookieToken, cookieKey.key, "tgl", "wi:" \o instance.id,
                            now, ClockSkewSec)
    IN IF clientSecret.ok /\ cookieKey.ok /\ v.ok /\ v.payload.iid = instance.id
       THEN Allow("cookie", <<"secrets.get">>)
       ELSE Deny("cookie", "PASSWORD_PAGE_HTML", "", <<"secrets.get">>)

\* the cookie branch comparing tv with === and no >>> 0 coercion
CookieBranchStrictTv(instance, webhook, cookieToken, env, now) ==
    LET ok == CookieBranchNoTv(instance, webhook, cookieToken, env, now)
    IN IF ok.ok /\ cookieToken.p.tv = instance.tokenVersion THEN ok
       ELSE Deny("cookie", "PASSWORD_PAGE_HTML", "", <<"secrets.get">>)

\* the cookie branch recording each refused cookie on the instance record
CookieBranchCounting(instance, webhook, cookieToken, env, now) ==
    LET ok == CookieBranchNoTv(instance, webhook, cookieToken, env, now)
    IN IF ok.ok /\ ToUint32(cookieToken.p.tv) = ToUint32(instance.tokenVersion) THEN ok
       ELSE Deny("cookie", "PASSWORD_PAGE_HTML", "",
                 <<"secrets.get", "instances.update">>)

\* the cookie branch taking the instance from the token's own iid claim
CookieBranchTrustsIid(instance, webhook, cookieToken, env, now) ==
    LET clientSecret == getClientSecret(webhook.ClientID, env)
        cookieKey == deriveCookieSigningKey(clientSecret.value, cookieToken.p.iid)
        v == verifyJwtHs256(cookieToken, cookieKey.key, "tgl",
                            "wi:" \o cookieToken.p.iid, now, ClockSkewSec)
    IN IF clientSecret.ok /\ cookieKey.ok /\ v.ok
          /\ ToUint32(v.payload.tv) = ToUint32(instance.tokenVersion)
       THEN Allow("cookie", <<"secrets.get">>)
       ELSE Deny("cookie", "PASSWORD_PAGE_HTML", "", <<"secrets.get">>)

\* lines 100-128: the JWT cookie branch
CookieBranch(instance, webhook, cookieToken, env, now) ==
    LET clientSecret == getClientSecret(webhook.ClientID, env)
        cookieKey == deriveCookieSigningKey(clientSecret.value, instance.id)
        aud == "wi:" \o instance.id
        v == verifyJwtHs256(cookieToken, cookieKey.key, "tgl", aud, now, ClockSkewSec)
        p == v.payload
        deny == Deny("cookie", "PASSWORD_PAGE_HTML", "", <<"secrets.get">>)
    IN IF ~clientSecret.ok \/ ~cookieKey.ok THEN deny
       ELSE IF ~v.ok THEN deny
       ELSE IF p.iid # instance.id THEN deny
       ELSE IF ToUint32(p.tv) # ToUint32(instance.tokenVersion) THEN deny
       ELSE Allow("cookie", <<"secrets.get">>)

\* user mode allowing every authenticated user
UserBranchAuthenticatedOnly(instance, webhook, event, env, now) ==
    LET cognitoResult ==
            verifyCognitoAuthAndAuthorization(event, instance, webhook, env, now)
    IN IF cognitoResult.threw THEN Throw("user", cognitoResult.calls)
       ELSE IF cognitoResult.authenticated
       THEN [Allow("user", cognitoResult.calls) EXCEPT
                 !.cognitoTokens = cognitoResult.tokens,
                 !.user = cognitoResult.user]
       ELSE Deny("user", "COGNITO_LOGIN_PAGE_HTML", "not_authenticated",
                 cognitoResult.calls)

\* lines 35-66: user mode, decided by verifyCognitoAuthAndAuthorization
UserBranch(instance, webhook, event, env, now) ==
    LET cognitoResult ==
            verifyCognitoAuthAndAuthorization(event, instance, webhook, env, now)
    IN IF cognitoResult.threw THEN Throw("user", cognitoResult.calls)
       ELSE IF cognitoResult.authenticated /\ cognitoResult.authorized = "true"
       THEN [Allow("user", cognitoResult.calls) EXCEPT
                 !.cognitoTokens = cognitoResult.tokens,
                 !.user = cognitoResult.user]
       ELSE IF cognitoResult.authenticated /\ cognitoResult.authorized # "true"
       THEN Deny("user", "ACCESS_DENIED_PAGE_HTML", "unauthorized",
                 cognitoResult.calls)
       ELSE Deny("user", "COGNITO_LOGIN_PAGE_HTML", "not_authenticated",
                 cognitoResult.calls)

\* lines 71-131: the cookie header, then the ?token branch, the cookie branch
\* or the password page
PasswordFlow(instance, webhook, event, env, now) ==
    LET cookieMap == getCookieMap(event.cookies)
        name == cookieNameFor(instance.id)
    IN IF ~cookieMap.ok THEN Throw("cookies", <<>>)
       ELSE IF QsPresent(event) /\ instance.authKey # ""
       THEN LegacyBranch(instance, webhook, event, env, now)
       ELSE IF cookieMap.has[name]
       THEN CookieBranch(instance, webhook, cookieMap.session[name], env, now)
       ELSE Deny("none", "PASSWORD_PAGE_HTML", "", <<>>)

\* the gate reading the cookie header before it looks at the webhook's mode
verifyAccessCookiesFirst(instance, webhook, event, env, now) ==
    IF ~getCookieMap(event.cookies).ok THEN Throw("cookies", <<>>)
    ELSE IF webhook.authenticationType = "user"
    THEN UserBranch(instance, webhook, event, env, now)
    ELSE IF ~webhook.passwordProtected THEN Allow("open", <<>>)
    ELSE PasswordFlow(instance, webhook, event, env, now)

\* the gate letting a session cookie stand in for the user's login
verifyAccessCookieOrUser(instance, webhook, event, env, now) ==
    IF webhook.authenticationType = "user"
    THEN IF webhook.passwordProtected
            /\ PasswordFlow(instance, webhook, event, env, now).ok
         THEN PasswordFlow(instance, webhook, event, env, now)
         ELSE UserBranch(instance, webhook, event, env, now)
    ELSE IF ~webhook.passwordProtected THEN Allow("open", <<>>)
    ELSE PasswordFlow(instance, webhook, event, env, now)

\* verifyAccessOrPasswordPage(instance, webhook, event); env holds the answers
\* of the external collaborators, now is nowSec()
verifyAccessOrPasswordPage(instance, webhook, event, env, now) ==
    IF webhook.authenticationType = "user"
    THEN UserBranch(instance, webhook, event, env, now)
    ELSE IF ~webhook.passwordProtected THEN Allow("open", <<>>)
    ELSE PasswordFlow(instance, webhook, event, env, now)

\* ------------------------------------------------------- the upload API gate
\* verifyJWTForAPI(event, instanceId) after its loadInstance / loadWebhook:
\* { ok, error }
verifyJWTForAPI(instance, webhook, event, env, now) ==
    LET instanceId == instance.id
        clientSecret == getClientSecret(webhook.ClientID, env)
        cookieKey == deriveCookieSigningKey(clientSecret.value, instanceId)
        cookieMap == getCookieMap(event.cookies)
        cookieName == cookieNameFor(instanceId)
        token == cookieMap.session[cookieName]
        aud == "wi:" \o instanceId
        result == verifyJwtHs256(token, cookieKey.key, "tgl", aud, now, ClockSkewSec)
        payload == result.payload
        payloadVersion == ParseInt(payload.tv)
        expectedVersion == ParseInt(OrZero(instance.tokenVersion))
    IN IF ~clientSecret.ok \/ ~cookieKey.ok \/ ~cookieMap.ok
       THEN [ok |-> FALSE, error |-> "Internal error"]
       ELSE IF ~cookieMap.has[cookieName]
       THEN [ok |-> FALSE, error |-> "Authentication required"]
       ELSE IF ~result.ok
       THEN [ok |-> FALSE, error |-> "Invalid authentication token"]
       ELSE IF payload.iid # instanceId
       THEN [ok |-> FALSE, error |-> "Instance ID mismatch"]
       ELSE IF payloadVersion = {} \/ payloadVersion # expectedVersion
       THEN [ok |-> FALSE, error |-> "Token has been revoked"]
       ELSE IF \E e \in payload.exp : e # 0 /\ e < now
       THEN [ok |-> FALSE, error |-> "Token expired"]
       ELSE [ok |-> TRUE, error |-> ""]

\* ------------------------------------------------------------- the handlers
NoSetCookie == [present |-> FALSE, name |-> "", value |-> NoCookie, maxAge |-> 0, path |-> ""]

NoResp ==
    [threw |-> FALSE, statusCode |-> "", body |-> "", setCookie |-> NoSetCookie,
     cognitoCookies |-> NoTokens, calls |-> <<>>]

\* the mint reading the counter from the table again instead of using the
\* record the request loaded
MintSessionCookieRereading(instance, webhook, now) ==
    LET cookieKey == deriveCookieSigningKey(SecretOf(webhook.ClientID), instance.id)
        jwtCookie == createJwtHs256(cookieKey.key, instance.id,
                                    ToUint32(instances[instance.id].tokenVersion),
                                    COOKIE_TTL_SEC, "tgl", "wi:" \o instance.id, now)
        c == buildAuthCookie(cookieNameFor(instance.id), jwtCookie, COOKIE_TTL_SEC,
                             "/instance/")
    IN [present |-> TRUE, name |-> c.name, value |-> c.value, maxAge |-> c.maxAge,
        path |-> c.path]

\* the session cookie both handlers mint: createJwtHs256 + buildAuthCookie
MintSessionCookie(instance, webhook, now) ==
    LET cookieKey == deriveCookieSigningKey(SecretOf(webhook.ClientID), instance.id)
        jwtCookie == createJwtHs256(cookieKey.key, instance.id,
                                    ToUint32(instance.tokenVersion), COOKIE_TTL_SEC,
                                    "tgl", "wi:" \o instance.id, now)
        c == buildAuthCookie(cookieNameFor(instance.id), jwtCookie, COOKIE_TTL_SEC,
                             "/instance/")
    IN [present |-> TRUE, name |-> c.name, value |-> c.value, maxAge |-> c.maxAge,
        path |-> c.path]

\* handleGetRequest refreshing the session cookie with the challenge as well
handleGetRequestRefreshing(instance, webhook, gate, env, now) ==
    IF gate.threw THEN [NoResp EXCEPT !.threw = TRUE, !.statusCode = "400"]
    ELSE IF ~gate.ok
    THEN [NoResp EXCEPT !.statusCode = "200",
                        !.body = IF gate.html # "" THEN gate.html
                                 ELSE "PASSWORD_PAGE_HTML",
                        !.setCookie = MintSessionCookie(instance, webhook, now)]
    ELSE [NoResp EXCEPT !.statusCode = "200", !.body = "page",
                        !.setCookie = MintSessionCookie(instance, webhook, now),
                        !.calls = <<"secrets.get", "instances.update">>]

\* handleGetRequest recording the visit before it looks at the gate's verdict
handleGetRequestCountingAll(instance, webhook, gate, env, now) ==
    IF gate.threw THEN [NoResp EXCEPT !.threw = TRUE, !.statusCode = "400"]
    ELSE IF ~gate.ok
    THEN [NoResp EXCEPT !.statusCode = "200",
                        !.body = IF gate.html # "" THEN gate.html
                                 ELSE "PASSWORD_PAGE_HTML",
                        !.calls = <<"instances.update">>]
    ELSE [NoResp EXCEPT !.statusCode = "200", !.body = "page",
                        !.calls = <<"instances.update">>]

\* handleGetRequest after the gate: the challenge, or the cookies, the visit
\* update and the page.  calls: the collaborators the handler itself calls.
handleGetRequest(instance, webhook, gate, env, now) ==
    IF gate.threw THEN [NoResp EXCEPT !.threw = TRUE, !.statusCode = "400"]
    ELSE IF ~gate.ok
    THEN [NoResp EXCEPT !.statusCode = "200",
                        !.body = IF gate.html # "" THEN gate.html
                                 ELSE "PASSWORD_PAGE_HTML"]
    ELSE IF gate.cognitoTokens.present
    THEN [NoResp EXCEPT !.statusCode = "200", !.body = "page",
                        !.cognitoCookies = gate.cognitoTokens,
                        !.calls = <<"instances.update">>]
    ELSE IF webhook.authenticationType # "user"
    THEN IF getClientSecret(webhook.ClientID, env).ok
         THEN [NoResp EXCEPT !.statusCode = "200", !.body = "page",
                             !.setCookie = MintSessionCookie(instance, webhook, now),
                             !.calls = <<"secrets.get", "instances.update">>]
         ELSE [NoResp EXCEPT !.statusCode = "200", !.body = "page",
                             !.calls = <<"secrets.get", "instances.update">>]
    ELSE [NoResp EXCEPT !.statusCode = "200", !.body = "page",
                        !.calls = <<"instances.update">>]

\* the exchange minting for any non-empty password
PostExchangeNoCompare(instance, webhook, event, env, now) ==
    IF ~event.bodyOk THEN [NoResp EXCEPT !.threw = TRUE, !.statusCode = "400"]
    ELSE IF event.password = ""
    THEN [NoResp EXCEPT !.statusCode = "401", !.body = "Invalid password"]
    ELSE IF ~getClientSecret(webhook.ClientID, env).ok
    THEN [NoResp EXCEPT !.threw = TRUE, !.statusCode = "400",
                        !.calls = <<"secrets.get">>]
    ELSE [NoResp EXCEPT !.statusCode = "200", !.body = "ok",
                        !.setCookie = MintSessionCookie(instance, webhook, now),
                        !.calls = <<"secrets.get">>]

\* handlePostRequest, the authentication exchange (lines 57-100)
PostExchange(instance, webhook, event, env, now) ==
    LET provided == event.password
        expected == instance.password
    IN IF ~event.bodyOk THEN [NoResp EXCEPT !.threw = TRUE, !.statusCode = "400"]
       ELSE IF provided = "" \/ provided # expected
       THEN [NoResp EXCEPT !.statusCode = "401", !.body = "Invalid password"]
       ELSE IF ~getClientSecret(webhook.ClientID, env).ok
       THEN [NoResp EXCEPT !.threw = TRUE, !.statusCode = "400",
                           !.calls = <<"secrets.get">>]
       ELSE [NoResp EXCEPT !.statusCode = "200", !.body = "ok",
                           !.setCookie = MintSessionCookie(instance, webhook, now),
                           !.calls = <<"secrets.get">>]

\* handlePostRequest, the normal submit (lines 102-173); gate is the verdict of
\* the gate when the webhook is passwordProtected
PostSubmit(webhook, gate) ==
    IF webhook.passwordProtected /\ gate.threw
    THEN [NoResp EXCEPT !.threw = TRUE, !.statusCode = "400"]
    ELSE IF webhook.passwordProtected /\ ~gate.ok
    THEN [NoResp EXCEPT !.statusCode = "401", !.body = "PASSWORD_PAGE_HTML"]
    ELSE [NoResp EXCEPT !.statusCode = "200", !.body = "success",
                        !.calls = <<"events.put">>]

\* updateWebhookInstance: SET lastPingedAt = :now, numberOfVisits =
\* if_not_exists(numberOfVisits, 0) + 1
updateWebhookInstance(rec, now) ==
    [rec EXCEPT !.lastPingedAt = {now},
                !.numberOfVisits = {(IF rec.numberOfVisits = {} THEN 0
                                     ELSE Only(rec.numberOfVisits)) + 1}]

\* the tables if reading the secret for a mint also advanced the counter
RECURSIVE ApplyCallsRotating(_, _, _, _)
ApplyCallsRotating(tables, id, calls, now) ==
    IF calls = <<>> THEN tables
    ELSE LET call == Head(calls)
             next == IF call = "instances.update"
                     THEN [tables EXCEPT !.instances[id] =
                               updateWebhookInstance(@, now)]
                     ELSE IF call = "events.put"
                     THEN [tables EXCEPT !.submits[id] = @ + 1]
                     ELSE IF call = "secrets.get"
                     THEN [tables EXCEPT !.instances[id].tokenVersion =
                               {(ToUint32(@) + 1) % (MaxCounter + 1)}]
                     ELSE tables
         IN ApplyCallsRotating(next, id, Tail(calls), now)

\* what the calls of one request do to the tables: updateWebhookInstance and
\* createInstanceEvent write, every other call only reads
RECURSIVE ApplyCalls(_, _, _, _)
ApplyCalls(tables, id, calls, now) ==
    IF calls = <<>> THEN tables
    ELSE LET call == Head(calls)
             next == IF call = "instances.update"
                     THEN [tables EXCEPT !.instances[id] =
                               updateWebhookInstance(@, now)]
                     ELSE IF call = "events.put"
                     THEN [tables EXCEPT !.submits[id] = @ + 1]
                     ELSE tables
         IN ApplyCalls(next, id, Tail(calls), now)

\* ---------------------------------------------------------------- the state
Instances == {"I1", "I2"}

Webhooks == {"W1", "W2"}

CookieNames == {cookieNameFor(i) : i \in Instances}

\* first instant of the model's clock
T0 == 1000

\* the instants the clock visits: the first mint, just before that cookie's
\* exp, past its exp but within the clock skew; a second apart from there on
Instants == <<T0, T0 + COOKIE_TTL_SEC - 1, T0 + COOKIE_TTL_SEC + 59>>

TimeAt(k) ==
    IF k < Len(Instants) THEN Instants[k + 1]
    ELSE Instants[Len(Instants)] + (k + 1 - Len(Instants))

\* nowSec()
nowSec == TimeAt(tick)

NoEvent ==
    [qs |-> [kind |-> "absent", tok |-> makeCompactToken(NoKey, "", {}, 0, 0, "")],
     cookies |-> [session |-> [n \in CookieNames |-> NoCookie],
                  idToken |-> NoIdCookie, refreshToken |-> NoIdCookie,
                  junk |-> FALSE],
     auth |-> FALSE, bodyOk |-> TRUE, password |-> ""]

NoVerify == [ok |-> FALSE, sub |-> "", exp |-> {}]

NoEnv ==
    [secretUp |-> TRUE, verify1 |-> NoVerify,
     refresh |-> [ok |-> FALSE, idToken |-> ""], verify2 |-> NoVerify]

NoInstance ==
    [id |-> "", WebhookID |-> "", tokenVersion |-> {}, authKey |-> "",
     password |-> "", numberOfVisits |-> {}, lastPingedAt |-> {}]

NoWebhook ==
    [id |-> "", ClientID |-> "", passwordProtected |-> FALSE,
     authenticationType |-> ""]

NoApi == [ok |-> FALSE, error |-> ""]

Idle ==
    [pc |-> "idle", op |-> "", instance |-> NoInstance, webhook |-> NoWebhook,
     event |-> NoEvent, env |-> NoEnv, now |-> 0, gate |-> NoGate, api |-> NoApi,
     resp |-> NoResp]

\* the tables as the deployment holds them at start: I1 has a password, no
\* legacy key material and no tokenVersion attribute yet; I2 has both a
\* password and legacy key material, and tokenVersion 0
InitInstances ==
    [i \in Instances |->
        IF i = "I1"
        THEN [id |-> "I1", WebhookID |-> "W1", tokenVersion |-> {},
              authKey |-> "", password |-> "pw1", numberOfVisits |-> {},
              lastPingedAt |-> {}]
        ELSE [id |-> "I2", WebhookID |-> "W2", tokenVersion |-> {0},
              authKey |-> "ak2", password |-> "pw2", numberOfVisits |-> {},
              lastPingedAt |-> {}]]

\* W1 belongs to tenant A; W2 to the same or to another tenant
InitWebhooks(w1, w2) ==
    [w \in Webhooks |->
        IF w = "W1"
        THEN [id |-> "W1", ClientID |-> "A",
              passwordProtected |-> w1.passwordProtected,
              authenticationType |-> w1.authenticationType]
        ELSE [id |-> "W2", ClientID |-> w2.ClientID,
              passwordProtected |-> w2.passwordProtected,
              authenticationType |-> w1.authenticationType]]

InitUsers ==
    [u \in {"admin", "ua", "ub"} |->
        IF u = "admin" THEN [type |-> "admin", ClientID |-> "Z"]
        ELSE IF u = "ua" THEN [type |-> "user", ClientID |-> "A"]
        ELSE [type |-> "user", ClientID |-> "B"]]

\* the token bench is not used by the request handlers
NoLab == [pc |-> "off"]

InitRest ==
    /\ users = InitUsers
    /\ submits = [i \in Instances |-> 0]
    /\ tick = 0
    /\ jar = [n \in CookieNames |-> NoCookie]
    /\ rq = Idle
    /\ served = 0
    /\ lab = NoLab

\* W1 is password-protected; W2 is password-protected (same or other tenant)
\* or unprotected
Init ==
    /\ instances = InitInstances
    /\ \E w2 \in {[ClientID |-> "A", passwordProtected |-> TRUE],
                  [ClientID |-> "B", passwordProtected |-> TRUE],
                  [ClientID |-> "B", passwordProtected |-> FALSE]} :
          webhooks = InitWebhooks([passwordProtected |-> TRUE,
                                   authenticationType |-> ""], w2)
    /\ InitRest

\* both webhooks authenticate users with the identity provider; W1 is not
\* passwordProtected, W2 is and belongs to another tenant
InitUser ==
    /\ instances = InitInstances
    /\ webhooks = InitWebhooks([passwordProtected |-> FALSE,
                                authenticationType |-> "user"],
                               [ClientID |-> "B", passwordProtected |-> TRUE])
    /\ InitRest

\* ---------------------------------------------------------------- the inputs
\* what a client can put in ?token=: nothing, an empty value, a string that is
\* no compact token, and links the issuer minted for this instance with its
\* legacy key at counter 0 or at the counter as loaded, without and with expiry
LinkTtl == 600

GarbageLink == [NoEvent.qs.tok EXCEPT !.len = 5]

LegacyKeyOf(instance, webhook) ==
    deriveSigningKey(SecretOf(webhook.ClientID),
                     IF instance.authKey = "" THEN "ak0" ELSE instance.authKey).key

QsChoices(instance, webhook) ==
    {[kind |-> k, tok |-> GarbageLink] : k \in {"absent", "empty", "token"}}
    \cup {[kind |-> "token",
           tok |-> makeCompactToken(LegacyKeyOf(instance, webhook), instance.id,
                                    {l.tv}, T0, l.ttl, "n1")] :
            l \in {[tv |-> 0, ttl |-> 0],
                   [tv |-> ToUint32(instance.tokenVersion), ttl |-> 0],
                   [tv |-> ToUint32(instance.tokenVersion), ttl |-> LinkTtl]}}

\* what a client can send under the instance's cookie name: nothing, a cookie
\* of its jar (its own, or the one set for the other instance), its own cookie
\* with tv rewritten to the counter as loaded plus one, a string that is no
\* JWT, a value with a malformed percent escape
Tampered(c, instance) ==
    [c EXCEPT !.text.p.tv = {ToUint32(instance.tokenVersion) + 1}]

GarbageCookie == [text |-> [NoJwt EXCEPT !.parts = 1], esc |-> "none"]

BadEscape == [text |-> NoJwt, esc |-> "bad"]

CookieChoices(instance) ==
    LET own == jar[cookieNameFor(instance.id)]
    IN {NoCookie, GarbageCookie, BadEscape}
       \cup {jar[n] : n \in CookieNames}
       \cup (IF own.esc = "none" THEN {Tampered(own, instance)} ELSE {})

WithCookie(instance, c) ==
    [NoEvent.cookies EXCEPT !.session[cookieNameFor(instance.id)] = c]

\* requests to a webhook that is not in user mode: every cookie without a
\* query token; every query token with no cookie, the jar's cookie and a
\* non-JWT; a link beside a malformed escape; a malformed pair elsewhere in
\* the header; the secret store not answering
SessionInputs(instance, webhook) ==
    LET own == jar[cookieNameFor(instance.id)]
        qs == QsChoices(instance, webhook)
        links == {x \in qs : x.kind = "token" /\ x.tok.expDelta = 0
                                /\ x.tok.len = CompactLen}
        in(q, c, junk, up) ==
            [event |-> [NoEvent EXCEPT !.qs = q,
                                       !.cookies = [WithCookie(instance, c) EXCEPT
                                                        !.junk = junk]],
             env |-> [NoEnv EXCEPT !.secretUp = up]]
    IN {in(q, c, FALSE, TRUE) :
            q \in {x \in qs : x.kind = "absent"}, c \in CookieChoices(instance)}
       \cup {in(q, c, FALSE, TRUE) :
                q \in qs, c \in {NoCookie, own, GarbageCookie}}
       \cup {in(q, c, FALSE, TRUE) : q \in links, c \in {BadEscape}}
       \cup {in(q, c, j, ~j) :
                q \in links \cup {x \in qs : x.kind = "absent"},
                c \in {NoCookie, own}, j \in BOOLEAN}

\* the subjects the identity provider vouches for
Subs == {"admin", "ua", "ub", "ghost"}

IdCookie == [esc |-> "none"]

Verified(subs, soon) ==
    {[ok |-> TRUE, sub |-> u,
      exp |-> {nowSec + (IF soon THEN 100 ELSE 3000)}] : u \in subs}

RefreshFails == [ok |-> FALSE, idToken |-> ""]

RefreshWorks == [ok |-> TRUE, idToken |-> "fresh"]

\* the Cognito cookies sent and the provider's answers to the calls the code
\* makes for them: no ID token; an ID token that does not verify; one that
\* verifies, far from its expiry or close to it
CognitoInputs ==
    LET in(id, rt, v1, rf, v2) ==
            [idToken |-> id, refreshToken |-> rt,
             env |-> [NoEnv EXCEPT !.verify1 = v1, !.refresh = rf, !.verify2 = v2]]
    IN {in(NoIdCookie, rt, NoVerify, RefreshFails, NoVerify) :
            rt \in {NoIdCookie, IdCookie}}
       \cup {in(IdCookie, NoIdCookie, v1, RefreshFails, NoVerify) :
                v1 \in {NoVerify} \cup Verified(Subs, FALSE)
                                  \cup Verified({"ua", "ub"}, TRUE)}
       \cup {in(IdCookie, IdCookie, v1, RefreshFails, NoVerify) :
                v1 \in {NoVerify} \cup Verified({"admin", "ghost"}, FALSE)
                                  \cup Verified({"ua", "ub"}, TRUE)}
       \cup {in(IdCookie, IdCookie, v1, RefreshWorks, v2) :
                v1 \in {NoVerify} \cup Verified({"ua", "ub"}, TRUE),
                v2 \in {NoVerify} \cup Verified(Subs, FALSE)}

\* requests to a webhook in user mode: the Cognito cookies alone; with a
\* link and the jar's session cookie beside them; in a header with a malformed
\* pair
UserInputs(instance, webhook) ==
    LET in(x, q, c) ==
            [event |-> [NoEvent EXCEPT !.qs = q,
                                       !.cookies = [WithCookie(instance, c) EXCEPT
                                                        !.idToken = x.idToken,
                                                        !.refreshToken = x.refreshToken]],
             env |-> x.env]
        links == {y \in QsChoices(instance, webhook) :
                     y.kind = "token" /\ y.tok.expDelta = 0 /\ y.tok.len = CompactLen}
    IN {in(x, NoEvent.qs, NoCookie) : x \in CognitoInputs}
       \cup {in(x, q, jar[cookieNameFor(instance.id)]) :
                x \in {y \in CognitoInputs :
                          y.env.refresh = RefreshFails /\ y.refreshToken = NoIdCookie
                          /\ y.env.verify1.sub \in {"", "ua", "ub"}},
                q \in links}
       \cup {[event |-> [NoEvent EXCEPT !.cookies.junk = TRUE,
                                         !.cookies.idToken = IdCookie],
              env |-> [NoEnv EXCEPT !.verify1 = v1]] : v1 \in Verified({"ua"}, FALSE)}

GateInputs(instance, webhook) ==
    IF webhook.authenticationType = "user"
    THEN UserInputs(instance, webhook)
    ELSE SessionInputs(instance, webhook)

\* ---------------------------------------------------------------- the actions
\* a request served from the record as the process first saw it
BeginCached(op, i) ==
    /\ rq.pc = "idle"
    /\ served < MaxRequests
    /\ rq' = [Idle EXCEPT !.pc = "loaded", !.op = op, !.instance = InitInstances[i],
                          !.webhook = webhooks[InitInstances[i].WebhookID]]
    /\ UNCHANGED <<instances, webhooks, users, submits, tick, jar, served, lab>>

\* a request arrives: loadInstance and loadWebhook
Begin(op, i) ==
    /\ rq.pc = "idle"
    /\ served < MaxRequests
    /\ rq' = [Idle EXCEPT !.pc = "loaded", !.op = op, !.instance = instances[i],
                          !.webhook = webhooks[instances[i].WebhookID]]
    /\ UNCHANGED <<instances, webhooks, users, submits, tick, jar, served, lab>>

\* the tables after the calls of the gate and of the handler
Written(gate, resp) ==
    ApplyCalls([instances |-> instances, submits |-> submits], rq.instance.id,
               gate.calls \o resp.calls, nowSec)

\* handleGetRequest: the gate, then the challenge or the page
GetRequest ==
    /\ rq.pc = "loaded" /\ rq.op = "GET"
    /\ \E x \in GateInputs(rq.instance, rq.webhook) :
          LET g == verifyAccessOrPasswordPage(rq.instance, rq.webhook, x.event,
                                              x.env, nowSec)
              r == handleGetRequest(rq.instance, rq.webhook, g, x.env, nowSec)
          IN /\ rq' = [rq EXCEPT !.pc = "done", !.event = x.event, !.env = x.env,
                                 !.now = nowSec, !.gate = g, !.resp = r]
             /\ instances' = Written(g, r).instances
             /\ submits' = Written(g, r).submits
    /\ UNCHANGED <<webhooks, users, tick, jar, served, lab>>

\* handlePostRequest: the password exchange
PostAuth ==
    /\ rq.pc = "loaded" /\ rq.op = "POST"
    /\ rq.webhook.passwordProtected
    /\ \E ok \in BOOLEAN, pw \in {"", "pw1", "pw2"}, up \in BOOLEAN :
          LET ev == [NoEvent EXCEPT !.auth = TRUE, !.bodyOk = ok, !.password = pw]
              env == [NoEnv EXCEPT !.secretUp = up]
              r == PostExchange(rq.instance, rq.webhook, ev, env, nowSec)
          IN /\ rq' = [rq EXCEPT !.pc = "done", !.event = ev, !.env = env,
                                 !.now = nowSec, !.resp = r]
             /\ instances' = Written(NoGate, r).instances
             /\ submits' = Written(NoGate, r).submits
    /\ UNCHANGED <<webhooks, users, tick, jar, served, lab>>

\* handlePostRequest: a form submission, gated when passwordProtected
PostRequest ==
    /\ rq.pc = "loaded" /\ rq.op = "POST"
    /\ \E x \in GateInputs(rq.instance, rq.webhook) :
          LET g == IF rq.webhook.passwordProtected
                   THEN verifyAccessOrPasswordPage(rq.instance, rq.webhook, x.event,
                                                   x.env, nowSec)
                   ELSE NoGate
              r == PostSubmit(rq.webhook, g)
          IN /\ rq' = [rq EXCEPT !.pc = "done", !.event = x.event, !.env = x.env,
                                 !.now = nowSec, !.gate = g, !.resp = r]
             /\ instances' = Written(g, r).instances
             /\ submits' = Written(g, r).submits
    /\ UNCHANGED <<webhooks, users, tick, jar, served, lab>>

\* handleUploadUrlRequest: verifyJWTForAPI
ApiVerify ==
    /\ rq.pc = "loaded" /\ rq.op = "API"
    /\ \E x \in {y \in SessionInputs(rq.instance, rq.webhook) :
                    y.event.qs.kind = "absent"} :
          LET a == verifyJWTForAPI(rq.instance, rq.webhook, x.event, x.env, nowSec)
          IN rq' = [rq EXCEPT !.pc = "done", !.event = x.event, !.env = x.env,
                              !.now = nowSec, !.api = a,
                              !.resp = [NoResp EXCEPT
                                            !.statusCode = IF a.ok THEN "200" ELSE "401",
                                            !.body = a.error]]
    /\ UNCHANGED <<instances, webhooks, users, submits, tick, jar, served, lab>>

\* the response reaches the client, whose jar keeps the cookie it sets
Return ==
    /\ rq.pc = "done"
    /\ rq' = Idle
    /\ jar' = IF rq.resp.setCookie.present
              THEN [jar EXCEPT ![rq.resp.setCookie.name] = rq.resp.setCookie.value]
              ELSE jar
    /\ served' = served + 1
    /\ UNCHANGED <<instances, webhooks, users, submits, tick, lab>>

\* the platform revokes the instance's tokens: tokenVersion + 1
Bump(i) ==
    /\ rq.pc # "done"
    /\ ToUint32(instances[i].tokenVersion) < MaxCounter
    /\ instances' = [instances EXCEPT
                        ![i].tokenVersion = {ToUint32(instances[i].tokenVersion) + 1}]
    /\ UNCHANGED <<webhooks, users, submits, tick, jar, rq, served, lab>>

\* time passes between requests
Tick ==
    /\ rq.pc = "idle"
    /\ tick < MaxTick
    /\ tick' = tick + 1
    /\ UNCHANGED <<instances, webhooks, users, submits, jar, rq, served, lab>>

Next ==
    \/ \E op \in {"GET", "POST", "API"}, i \in Instances : Begin(op, i)
    \/ GetRequest
    \/ PostAuth
    \/ PostRequest
    \/ ApiVerify
    \/ Return
    \/ \E i \in Instances : Bump(i)
    \/ Tick

Spec == Init /\ [][Next]_vars

SpecUser == InitUser /\ [][Next]_vars

\* both families of deployments
SpecAll == (Init \/ InitUser) /\ [][Next]_vars

\* ------------------------------------------------------------ the requests
\* the request in rq has been handled
Done == rq.pc = "done"

\* the handler evaluated the page gate
PageGated ==
    /\ Done
    /\ rq.op \in {"GET", "POST"}
    /\ ~rq.event.auth
    /\ rq.op = "POST" => rq.webhook.passwordProtected

\* ... for a password-protected webhook that is not in user mode
SessionGated ==
    /\ PageGated
    /\ rq.webhook.authenticationType # "user"
    /\ rq.webhook.passwordProtected

ApiGated == Done /\ rq.op = "API"

\* the cookie the request sent under the instance's cookie name
Sent == rq.event.cookies.session[cookieNameFor(rq.instance.id)]

\* the key the session cookies of instance i are signed with
SessionKeyOf(i) ==
    deriveCookieSigningKey(SecretOf(webhooks[instances[i].WebhookID].ClientID), i).key

\* c is a session JWT the server minted for instance i: its signature is the
\* one of i's session key over its header and payload, and its iid is i
MintedFor(c, i) ==
    /\ c.esc = "none"
    /\ c.text.parts = 3
    /\ c.text.p.dec = "ok"
    /\ c.text.p.iid = i
    /\ c.text.s = JwtSig(SessionKeyOf(i), c.text.h, c.text.p)

\* the legacy branch applies to the request
LegacyApplies == QsPresent(rq.event) /\ rq.instance.authKey # ""

\* the Cookie header of the request decodes
HeaderDecodes ==
    /\ ~rq.event.cookies.junk
    /\ \A n \in CookieNames : rq.event.cookies.session[n].esc # "bad"
    /\ rq.event.cookies.idToken.esc # "bad"
    /\ rq.event.cookies.refreshToken.esc # "bad"

\* ---------------------------------------------------------------------- C1
\* the request presents a session JWT minted for its instance at counter N and
\* reads counter N + 1
C1_Revoked ==
    /\ Done
    /\ MintedFor(Sent, rq.instance.id)
    /\ ToUint32(Sent.text.p.tv) + 1 = ToUint32(rq.instance.tokenVersion)

\* C1: a session JWT minted for an instance at counter N is refused by both
\* gates on a request that reads counter N + 1: the upload API gate answers
\* not ok; the page gate of a password-protected webhook never ALLOWs on the
\* cookie (an ALLOW can only come from the ?token branch, which does not look
\* at the cookie), and when the header decodes and the ?token branch does not
\* apply it reaches the cookie branch and DENIES with the password page.
C1_RevokedCookieDenied ==
    C1_Revoked =>
        /\ ApiGated => ~rq.api.ok
        /\ SessionGated =>
              /\ rq.gate.ok => rq.gate.branch = "legacy"
              /\ (HeaderDecodes /\ ~LegacyApplies) =>
                    /\ rq.gate.branch = "cookie"
                    /\ ~rq.gate.ok /\ ~rq.gate.threw
                    /\ rq.gate.html = "PASSWORD_PAGE_HTML"

\* a revoked cookie whose signature, issuer, audience and expiry still verify
\* is refused by the cookie branch of the page gate
C1_Witness ==
    /\ C1_Revoked
    /\ SessionGated
    /\ rq.op = "GET"
    /\ verifyJwtHs256(Sent.text, SessionKeyOf(rq.instance.id), "tgl",
                      "wi:" \o rq.instance.id, rq.now, ClockSkewSec).ok
    /\ rq.gate.branch = "cookie"
    /\ ~rq.gate.ok

\* ---------------------------------------------------------------------- C2
\* what CompactTokenCodec answers for the request's query token under the
\* instance's legacy key
C2_CompactVerifies ==
    /\ rq.env.secretUp
    /\ verifyCompactToken(rq.event.qs.tok,
                          deriveSigningKey(SecretOf(rq.webhook.ClientID),
                                           rq.instance.authKey).key,
                          rq.instance.id, {ToUint32(rq.instance.tokenVersion)},
                          rq.now).ok

\* C2: for a password-protected webhook not in user mode, when the request
\* carries a query token and the instance has legacy key material, the gate
\* returns a verdict and that verdict is ALLOW exactly when the token verifies,
\* whatever session cookie accompanies the request.
C2_LegacyDecidesAlone ==
    (SessionGated /\ LegacyApplies) =>
        /\ ~rq.gate.threw
        /\ rq.gate.ok <=> C2_CompactVerifies

\* a verifying link next to a cookie with a malformed percent escape: the gate
\* throws before it reaches the ?token branch
C2_Failing ==
    /\ SessionGated /\ LegacyApplies
    /\ C2_CompactVerifies
    /\ Sent.esc = "bad"
    /\ rq.gate.threw

\* ---------------------------------------------------------------------- C3
\* the four conditions of the cookie branch, computed from the request
C3_CookieVerifies ==
    LET v == verifyJwtHs256(Sent.text, SessionKeyOf(rq.instance.id), "tgl",
                            "wi:" \o rq.instance.id, rq.now, ClockSkewSec)
    IN /\ Sent.esc = "none"
       /\ rq.env.secretUp
       /\ v.ok
       /\ v.payload.iid = rq.instance.id
       /\ ToUint32(v.payload.tv) = ToUint32(rq.instance.tokenVersion)

\* C3: for a password-protected webhook not in user mode, when the legacy
\* branch does not apply, the gate ALLOWs exactly when a session cookie for
\* the instance is present, verifies under the instance's session key with
\* issuer "tgl" and audience "wi:<id>", and carries the instance's id and
\* current counter; in every other case it DENIES.
C3_CookieBranchVerdict ==
    (SessionGated /\ ~LegacyApplies) =>
        /\ rq.gate.ok <=> C3_CookieVerifies
        /\ ~rq.gate.ok => (~rq.gate.threw /\ rq.gate.html = "PASSWORD_PAGE_HTML")

\* no query token and a Cookie header with a malformed percent escape: the
\* gate throws instead of denying
C3_Failing ==
    /\ SessionGated /\ ~LegacyApplies
    /\ ~HeaderDecodes
    /\ rq.gate.threw
    /\ rq.resp.statusCode = "400"

\* ---------------------------------------------------------------------- C4
\* the handler evaluated the page gate for a webhook in user mode
UserGated == PageGated /\ rq.webhook.authenticationType = "user"

\* what the identity check answers for the request
C4_Provider ==
    verifyCognitoAuthAndAuthorization(rq.event, rq.instance, rq.webhook, rq.env,
                                      rq.now)

\* the request with another query token and another session cookie
C4_Variant(q, c) ==
    [rq.event EXCEPT !.qs = q,
                     !.cookies.session[cookieNameFor(rq.instance.id)] = c]

\* no query token, and a link that verifies for the instance
C4_Links ==
    {NoEvent.qs,
     [kind |-> "token",
      tok |-> makeCompactToken(LegacyKeyOf(rq.instance, rq.webhook), rq.instance.id,
                               rq.instance.tokenVersion, T0, 0, "n1")]}

C5_Refreshed ==
    /\ rq.event.cookies.idToken.esc = "none"
    /\ rq.event.cookies.refreshToken.esc = "none"
    /\ ~rq.env.verify1.ok \/ isTokenExpiringSoon(rq.env.verify1, rq.now)
    /\ rq.env.refresh.ok
    /\ rq.env.verify2.ok

\* the identity check ended with a verified ID token
C5_Verified ==
    /\ rq.event.cookies.idToken.esc = "none"
    /\ C5_Refreshed \/ rq.env.verify1.ok

\* the user of that token is an admin or of the webhook's tenant
C5_Authorized ==
    LET sub == IF C5_Refreshed THEN rq.env.verify2.sub ELSE rq.env.verify1.sub
    IN /\ sub \in DOMAIN users
       /\ users[sub].type = "admin" \/ users[sub].ClientID = rq.webhook.ClientID

\* C5: in user mode, when the identity check ends with a verified ID token of
\* an admin or of a user of the webhook's tenant, the gate ALLOWs, and after a
\* refresh the verdict carries the refreshed tokens.
C5_AuthorizedUserAllowed ==
    (UserGated /\ HeaderDecodes /\ C5_Verified /\ C5_Authorized) =>
        /\ rq.gate.ok
        /\ C5_Refreshed =>
              /\ rq.gate.cognitoTokens.present
              /\ rq.gate.cognitoTokens.idToken = rq.env.refresh.idToken

\* an admin whose ID token no longer verifies and whose refresh succeeds gets
\* the access-denied page
C5_Failing ==
    /\ UserGated /\ HeaderDecodes
    /\ C5_Refreshed /\ C5_Authorized
    /\ ~rq.env.verify1.ok
    /\ rq.env.verify2.sub = "admin"
    /\ ~rq.gate.ok
    /\ rq.gate.reason = "unauthorized"
    /\ rq.gate.html = "ACCESS_DENIED_PAGE_HTML"

\* ---------------------------------------------------------------------- C6
\* the gate was evaluated for a webhook that is neither in user mode nor
\* password-protected
C6_Open ==
    /\ PageGated
    /\ rq.webhook.authenticationType # "user"
    /\ ~rq.webhook.passwordProtected

\* C6: for a webhook that is not in user mode and not password-protected the
\* gate ALLOWs whatever query token and Cookie header the request carries,
\* and makes no call to the secret store or any other collaborator.
C6_OpenAllowed ==
    C6_Open =>
        /\ rq.gate.ok
        /\ ~rq.gate.threw
        /\ rq.gate.calls = <<>>

\* ALLOW on a Cookie header that does not decode
C6_Witness ==
    /\ C6_Open
    /\ ~HeaderDecodes
    /\ rq.gate.ok

\* ---------------------------------------------------------------------- C7
\* a handler evaluates the page gate
C7_GateStep ==
    /\ rq.pc = "loaded"
    /\ rq'.pc = "done"
    /\ rq'.op \in {"GET", "POST"}
    /\ ~rq'.event.auth
    /\ rq'.op = "POST" => rq.webhook.passwordProtected

C7_Tables == [instances |-> instances, submits |-> submits]

\* C7: evaluating the gate writes nothing: its collaborator calls are the
\* secret lookup, the identity provider's verify and refresh and the user
\* lookup, applying them leaves every table as it was, no counter changes, and
\* a request the gate does not ALLOW changes no stored record at all.
C7_GateHasNoSideEffects ==
    [][C7_GateStep =>
          /\ \A k \in DOMAIN rq'.gate.calls :
                rq'.gate.calls[k] \in {"secrets.get", "cognito.verify",
                                       "cognito.refresh", "users.get"}
          /\ ApplyCalls(C7_Tables, rq.instance.id, rq'.gate.calls, nowSec)
                = C7_Tables
          /\ webhooks' = webhooks
          /\ users' = users
          /\ \A i \in Instances :
                instances'[i].tokenVersion = instances[i].tokenVersion
          /\ ~rq'.gate.ok => (instances' = instances /\ submits' = submits)]_vars

\* the gate called a collaborator, denied, and the instance record is as the
\* request loaded it
C7_Witness ==
    /\ PageGated
    /\ rq.gate.calls # <<>>
    /\ ~rq.gate.ok
    /\ instances[rq.instance.id] = rq.instance
    /\ submits[rq.instance.id] = 0

\* ---------------------------------------------------------------------- C8
\* a POST auth exchange on a password-protected webhook has been answered
C8_Exchange == Done /\ rq.op = "POST" /\ rq.event.auth

\* the provided password is non-empty and is the instance's password
C8_Match ==
    /\ rq.event.password # ""
    /\ rq.event.password = rq.instance.password

\* the Set-Cookie of the response holds a session JWT with the claims of the
\* instance as the request loaded it
C8_MintedRight ==
    LET sc == rq.resp.setCookie
        p == sc.value.text.p
    IN /\ sc.name = cookieNameFor(rq.instance.id)
       /\ sc.maxAge = COOKIE_TTL_SEC
       /\ MintedFor(sc.value, rq.instance.id)
       /\ p.tv = {ToUint32(rq.instance.tokenVersion)}
       /\ p.iss = "tgl"
       /\ p.aud = "wi:" \o rq.instance.id
       /\ p.iat = {rq.now}
       /\ p.exp = {rq.now + COOKIE_TTL_SEC}

C9_FromExchange ==
    /\ Sent.esc = "none"
    /\ Sent.text.p.iat # {}
    /\ Sent = MintSessionCookie(rq.instance, rq.webhook, Only(Sent.text.p.iat)).value

\* ... presented before its exp, with no query token, in a header that
\* decodes, while the secret store answers
C9_Presented ==
    /\ Done
    /\ C9_FromExchange
    /\ rq.now < Only(Sent.text.p.exp)
    /\ rq.event.qs.kind = "absent"
    /\ HeaderDecodes
    /\ rq.env.secretUp

C10_Foreign ==
    /\ Done
    /\ \E i \in Instances \ {rq.instance.id} : MintedFor(Sent, i)

\* C10: a session JWT minted for another instance is refused by both gates:
\* the upload API gate answers not ok; the page gate of a password-protected
\* webhook never ALLOWs on it, and DENIES when it reaches the cookie branch.
C10_InstanceIsolation ==
    C10_Foreign =>
        /\ ApiGated => ~rq.api.ok
        /\ SessionGated =>
              /\ rq.gate.ok => rq.gate.branch = "legacy"
              /\ (HeaderDecodes /\ ~LegacyApplies) =>
                    (rq.gate.branch = "cookie" /\ ~rq.gate.ok)

\* the other instance is of the same tenant, the counters agree and the token
\* has not expired
C10_Witness ==
    /\ C10_Foreign
    /\ SessionGated
    /\ \A w \in Webhooks : webhooks[w].ClientID = rq.webhook.ClientID
    /\ ToUint32(Sent.text.p.tv) = ToUint32(rq.instance.tokenVersion)
    /\ rq.now < Only(Sent.text.p.exp)
    /\ rq.gate.branch = "cookie"
    /\ ~rq.gate.ok

\* ------------------------------------------------------------ the JWT bench
\* createJwtHs256 and verifyJwtHs256 called directly: a token is created for
\* (secret, instance id, claims, ttl), possibly rewritten by whoever carries
\* it, and verified with arguments of the caller's choice.
serverVars == <<instances, webhooks, users, submits, tick, jar, rq, served>>

BenchSecrets == {"secret-A", "secret-B"}

BenchIat == 1000

BenchTtls == {0, 600}

\* the instants of verification
BenchNows == {900, 1500, 1599, 1600, 1660, 1700}

BenchSkews == {0, 60}

NoMade == [secret |-> "", iid |-> "", tv |-> 0, ttlSec |-> 0, iss |-> "", aud |-> ""]

NoAsk == [key |-> NoKey, iss |-> "", aud |-> "", now |-> 0, clockSkewSec |-> 0]

NoVerdict == [ok |-> FALSE, reason |-> "", payload |-> NoPayload]

JwtIdle ==
    [pc |-> "idle", made |-> NoMade, key |-> NoKey, token |-> NoJwt,
     forged |-> "", ask |-> NoAsk, res |-> NoVerdict]

InitJwt ==
    /\ instances = InitInstances
    /\ webhooks = InitWebhooks([passwordProtected |-> TRUE,
                                authenticationType |-> ""],
                               [ClientID |-> "B", passwordProtected |-> TRUE])
    /\ users = InitUsers
    /\ submits = [i \in Instances |-> 0]
    /\ tick = 0
    /\ jar = [n \in CookieNames |-> NoCookie]
    /\ rq = Idle
    /\ served = 0
    /\ lab = JwtIdle

\* createJwtHs256({ key: deriveCookieSigningKey(secret, iid), payload: { iid,
\* tv }, ttlSec, iss, aud, iat }): the issuer and audience of the handlers, or
\* none
JwtCreate ==
    /\ lab.pc = "idle"
    /\ \E secret \in BenchSecrets, iid \in Instances, tv \in 0 .. MaxCounter,
          ttlSec \in BenchTtls, named \in BOOLEAN :
          LET k == deriveCookieSigningKey(secret, iid).key
              iss == IF named THEN "tgl" ELSE ""
              aud == IF named THEN "wi:" \o iid ELSE ""
          IN lab' = [JwtIdle EXCEPT
                        !.pc = "made",
                        !.made = [secret |-> secret, iid |-> iid, tv |-> tv,
                                  ttlSec |-> ttlSec, iss |-> iss, aud |-> aud],
                        !.key = k,
                        !.token = createJwtHs256(k, iid, tv, ttlSec, iss, aud, BenchIat)]
    /\ UNCHANGED serverVars

\* headers a carrier can write instead of {"alg":"HS256","typ":"JWT"}
ForgedHeaders ==
    {[JwtHeader EXCEPT !.dec = "bad"], [JwtHeader EXCEPT !.dec = "null"],
     [dec |-> "scalar", alg |-> "", typ |-> ""],
     [JwtHeader EXCEPT !.alg = "none"], [JwtHeader EXCEPT !.alg = "HS512"],
     [JwtHeader EXCEPT !.typ = "JWS"], [JwtHeader EXCEPT !.typ = ""]}

\* payloads a carrier can write instead of p
ForgedPayloads(p) ==
    {[p EXCEPT !.dec = "bad"], [p EXCEPT !.dec = "null"],
     [NoPayload EXCEPT !.dec = "scalar"],
     [p EXCEPT !.iss = "evil"], [p EXCEPT !.aud = "wi:evil"],
     [p EXCEPT !.tv = {Only(p.tv) + 1}]}
    \cup {[p EXCEPT !.nbf = n, !.exp = e] :
             n \in {{}, {1550}, {2000}}, e \in {{1000}, {1600}, {2000}}}

\* what reaches the verifier instead of the token: another number of
\* segments, or another header or payload under the signature as issued
\* ("kept"), under a signature made with the issuing key ("signed") or under
\* one made with a key of the carrier's own ("own")
Forgeries(t, k) ==
    {[kind |-> "segments", token |-> [t EXCEPT !.parts = n]] : n \in {1, 2, 4}}
    \cup {[kind |-> sg,
           token |-> [t EXCEPT !.h = h, !.p = p,
                               !.s = CASE sg = "kept" -> t.s
                                       [] sg = "signed" -> JwtSig(k, h, p)
                                       [] OTHER -> JwtSig(Hmac("own", "own"), h, p)]] :
             sg \in {"kept", "signed", "own"},
             h \in {t.h}, p \in ForgedPayloads(t.p)}
    \cup {[kind |-> sg,
           token |-> [t EXCEPT !.h = h,
                               !.s = CASE sg = "kept" -> t.s
                                       [] sg = "signed" -> JwtSig(k, h, t.p)
                                       [] OTHER -> JwtSig(Hmac("own", "own"), h, t.p)]] :
             sg \in {"kept", "signed", "own"}, h \in ForgedHeaders}
    \cup {[kind |-> "own", token |-> [t EXCEPT !.s = JwtSig(Hmac("own", "own"), t.h, t.p)]]}

JwtForge ==
    /\ lab.pc = "made"
    /\ \E f \in Forgeries(lab.token, lab.key) :
          lab' = [lab EXCEPT !.pc = "forged", !.token = f.token, !.forged = f.kind]
    /\ UNCHANGED serverVars

\* verifyJwtHs256({ token, key, iss, aud, now, clockSkewSec }) with the key,
\* issuer and audience of the creation or with those of the other instance
JwtVerify ==
    /\ lab.pc \in {"made", "forged"}
    /\ \E same \in BOOLEAN, named \in {"same", "other", "none"},
          now \in BenchNows, skew \in BenchSkews :
          LET other == CHOOSE i \in Instances : i # lab.made.iid
              a == [key |-> IF same THEN lab.key
                            ELSE deriveCookieSigningKey(lab.made.secret, other).key,
                    iss |-> CASE named = "same" -> lab.made.iss
                              [] named = "other" -> "tgl-other"
                              [] OTHER -> "",
                    aud |-> CASE named = "same" -> lab.made.aud
                              [] named = "other" -> "wi:" \o other
                              [] OTHER -> "",
                    now |-> now, clockSkewSec |-> skew]
          IN lab' = [lab EXCEPT
                        !.pc = "verified", !.ask = a,
                        !.res = verifyJwtHs256(lab.token, a.key, a.iss, a.aud,
                                               a.now, a.clockSkewSec)]
    /\ UNCHANGED serverVars

JwtAgain ==
    /\ lab.pc = "verified"
    /\ lab' = JwtIdle
    /\ UNCHANGED serverVars

NextJwt == JwtCreate \/ JwtForge \/ JwtVerify \/ JwtAgain

SpecJwt == InitJwt /\ [][NextJwt]_vars

\* ------------------------------------------------------------ the JWT claims
JwtVerified == lab.pc = "verified"

\* the token reached the verifier as createJwtHs256 returned it
Untouched == lab.forged = ""

\* the verifier was given the key, issuer and audience of the creation
SameArguments ==
    /\ lab.ask.key = deriveCookieSigningKey(lab.made.secret, lab.made.iid).key
    /\ lab.ask.iss = lab.made.iss
    /\ lab.ask.aud = lab.made.aud

\* the token has no expiry or the instant of verification is before it
BeforeExpiry == lab.made.ttlSec > 0 => lab.ask.now < BenchIat + lab.made.ttlSec

HeaderIsHs256Jwt ==
    lab.token.h.dec = "ok" /\ lab.token.h.alg = "HS256" /\ lab.token.h.typ = "JWT"

SignatureMatches == lab.token.s = JwtSig(lab.ask.key, lab.token.h, lab.token.p)

PayloadReadable == lab.token.p.dec \in {"ok", "scalar"}

IssFails == lab.ask.iss # "" /\ lab.token.p.iss # lab.ask.iss

AudFails == lab.ask.aud # "" /\ lab.token.p.aud # lab.ask.aud

NbfFails == \E n \in lab.token.p.nbf : lab.ask.now + lab.ask.clockSkewSec < n

ExpFails == \E e \in lab.token.p.exp : lab.ask.now - lab.ask.clockSkewSec >= e

ClaimReasons == {"iss", "aud", "nbf", "exp"}

\* C12: verifyJwtHs256 checks format, header, sig, iss, aud, nbf, exp in this
\* order and reports the first failure: a token not of 3 segments gives
\* "format"; a header that decodes to something other than alg=HS256,
\* typ=JWT gives "header" whether or not the signature matches; with a good
\* header a signature mismatch gives "sig" whatever the payload holds; "iss",
\* "aud", "nbf", "exp" are reported only under a valid signature, and then the
\* first of them that fails is the one reported.
C12_CheckOrder ==
    JwtVerified =>
        /\ lab.token.parts # 3 => lab.res.reason = "format"
        /\ (lab.token.parts = 3 /\ lab.token.h.dec # "bad" /\ ~HeaderIsHs256Jwt)
              => lab.res.reason = "header"
        /\ (lab.token.parts = 3 /\ HeaderIsHs256Jwt /\ ~SignatureMatches)
              => lab.res.reason = "sig"
        /\ lab.res.reason \in ClaimReasons
              => lab.token.parts = 3 /\ HeaderIsHs256Jwt /\ SignatureMatches
        /\ (lab.token.parts = 3 /\ HeaderIsHs256Jwt /\ SignatureMatches
               /\ PayloadReadable)
              => lab.res.reason = (CASE IssFails -> "iss"
                                     [] ~IssFails /\ AudFails -> "aud"
                                     [] ~IssFails /\ ~AudFails /\ NbfFails -> "nbf"
                                     [] ~IssFails /\ ~AudFails /\ ~NbfFails /\ ExpFails
                                           -> "exp"
                                     [] OTHER -> "")
        /\ lab.res.ok <=> lab.res.reason = ""

\* a token whose header was rewritten to alg "none" and signed again with the
\* issuing key, so that the signature matches: the verifier answers "header"
C12_Witness ==
    /\ JwtVerified
    /\ lab.token.parts = 3 /\ lab.token.h.dec = "ok" /\ lab.token.h.alg = "none"
    /\ SignatureMatches
    /\ lab.res.reason = "header"

\* a correctly signed token whose issuer and audience pass
SignedAndNamed ==
    /\ JwtVerified
    /\ lab.token.parts = 3 /\ HeaderIsHs256Jwt /\ SignatureMatches
    /\ lab.token.p.dec = "ok"
    /\ ~IssFails /\ ~AudFails

\* a token created with iat = BenchIat and ttl 600, verified as created with
\* the arguments of the creation and no skew
C13_Example(now) ==
    /\ JwtVerified /\ Untouched /\ SameArguments
    /\ lab.made.ttlSec = 600
    /\ lab.ask.now = now /\ lab.ask.clockSkewSec = 0

\* C13 as amended: for a correctly signed token with matching issuer and
\* audience, verifyJwtHs256 fails with "nbf" iff the payload has a numeric nbf
\* and now + clockSkewSec < nbf; it fails with "exp" iff the nbf check passes
\* and the payload has a numeric exp with now - clockSkewSec >= exp; it
\* returns ok iff neither holds.  A token with iat = 1000 and ttl = 600
\* verifies at now = 1500 and fails with "exp" at now = 1700 (skew 0).
C13_TimeWindow ==
    /\ SignedAndNamed
          => /\ lab.res.reason = "nbf" <=> NbfFails
             /\ lab.res.reason = "exp" <=> (~NbfFails /\ ExpFails)
             /\ lab.res.ok <=> (~NbfFails /\ ~ExpFails)
    /\ C13_Example(1500) => lab.res.ok
    /\ C13_Example(1700) => (~lab.res.ok /\ lab.res.reason = "exp")

\* C13 as stated: for a correctly signed token with matching issuer and
\* audience, verifyJwtHs256 fails with "exp" iff the payload has a numeric exp
\* and now - clockSkewSec >= exp, and fails with "nbf" iff it has a numeric
\* nbf and now + clockSkewSec < nbf.
C13_AsStated ==
    SignedAndNamed
        => /\ lab.res.reason = "exp" <=> ExpFails
           /\ lab.res.reason = "nbf" <=> NbfFails

\* the example of the claim: ttl 600 from iat, verified at 1700 without skew,
\* is answered "exp"
C13_Witness == C13_Example(1700) /\ SignedAndNamed /\ lab.res.reason = "exp"

\* the token is not a well-formed JWT: not 3 segments, or a header or payload
\* segment that does not decode to a JSON object
Malformed ==
    lab.token.parts # 3 \/ lab.token.h.dec # "ok" \/ lab.token.p.dec # "ok"

\* a decode step that verifyJwtHs256 executes fails: the header's JSON.parse,
\* or, once the signature has matched, the payload's JSON.parse or the read of
\* a property of null
DecodeFails ==
    /\ lab.token.parts = 3
    /\ \/ lab.token.h.dec = "bad"
       \/ HeaderIsHs256Jwt /\ SignatureMatches /\ lab.token.p.dec \in {"bad", "null"}

\* C14: verifyJwtHs256 fails closed: for every malformed token (wrong number
\* of segments, a header or payload that is not the encoding of a JSON
\* object) it returns ok = FALSE with a reason, the reason being "parse" when
\* a decode step fails.
C14_FailsClosed ==
    JwtVerified =>
        /\ Malformed => (~lab.res.ok /\ lab.res.reason # "")
        /\ DecodeFails => lab.res.reason = "parse"

\* a token whose payload segment is the JSON of a scalar, signed with the
\* issuing key and verified with that key without issuer or audience, is
\* returned as ok
C14_Failing ==
    /\ JwtVerified
    /\ lab.token.p.dec = "scalar" /\ SignatureMatches
    /\ lab.ask.iss = "" /\ lab.ask.aud = ""
    /\ lab.res.ok

\* ------------------------------------------------- the compact-token bench
\* makeCompactToken and verifyCompactToken called directly: a link is minted
\* for an instance with its legacy key, possibly rewritten by whoever carries
\* it, and verified with a context of the caller's choice.

\* the 4 bytes of u32(n), most significant first (writeUInt32BE, readUInt32BE)
ByteWeight(k) == CASE k = 0 -> 16777216 [] k = 1 -> 65536 [] k = 2 -> 256 [] OTHER -> 1

ByteOf(n, k) == (n \div ByteWeight(k)) % 256

SetByte(n, k, b) == n - ByteOf(n, k) * ByteWeight(k) + b * ByteWeight(k)

\* what is added (mod 256) to a byte to change it
ByteDeltas == {1, 127}

MintTtls == {0, LinkTtl, BypassTtl - 1, BypassTtl, BypassTtl + 1, 16777215}

\* iat: the epoch, an ordinary instant, the largest value of 3 bytes
MintIats == {0, BenchIat, 16777215}

\* the instants of verification, from before iat to far past every expiry
CheckNows(iat, ttl) ==
    {iat - 1, iat + LinkTtl, iat + LinkTtl + 1,
     iat + BypassTtl - 1, iat + BypassTtl, iat + BypassTtl + 1,
     iat + BypassTtl + 2, iat + 100 * BypassTtl, iat + ttl, iat + ttl + 1}

NoLink == makeCompactToken(NoKey, "", {}, 0, 0, "")

NoMint == [iid |-> "", tv |-> {}, iat |-> 0, ttlSeconds |-> 0, nonce |-> ""]

NoCheck == [key |-> NoKey, iid |-> "", tv |-> {}, now |-> 0]

NoOutcome == [ok |-> FALSE, reason |-> "", iat |-> {}, exp |-> {}]

CompactIdle ==
    [pc |-> "idle", made |-> NoMint, key |-> NoKey, token |-> NoLink,
     forged |-> "", ask |-> NoCheck, res |-> NoOutcome, link |-> FALSE]

InitCompact ==
    /\ instances = InitInstances
    /\ webhooks = InitWebhooks([passwordProtected |-> TRUE,
                                authenticationType |-> ""],
                               [ClientID |-> "B", passwordProtected |-> TRUE])
    /\ users = InitUsers
    /\ submits = [i \in Instances |-> 0]
    /\ tick = 0
    /\ jar = [n \in CookieNames |-> NoCookie]
    /\ rq = Idle
    /\ served = 0
    /\ lab = CompactIdle

\* the legacy key of instance i
BenchKey(i) == LegacyKeyOf(instances[i], webhooks[instances[i].WebhookID])

\* makeCompactToken({ signingKey, instanceId, tokenVersion, iat, ttlSeconds })
\* for an instance, at a counter that is missing or 0 .. MaxCounter
CompactMint ==
    /\ lab.pc = "idle"
    /\ \E iid \in Instances, tv \in {{}} \cup {{c} : c \in 0 .. MaxCounter},
          ttl \in MintTtls, iat \in MintIats :
          lab' = [CompactIdle EXCEPT
                     !.pc = "made",
                     !.made = [iid |-> iid, tv |-> tv, iat |-> iat,
                               ttlSeconds |-> ttl, nonce |-> "n1"],
                     !.key = BenchKey(iid),
                     !.token = makeCompactToken(BenchKey(iid), iid, tv, iat,
                                                ttl, "n1")]
    /\ UNCHANGED serverVars

\* byte k of the nonce replaced by another value: another nonce
OtherNonce(nonce, k) ==
    nonce \o "~" \o <<"0", "1", "2", "3", "4", "5", "6", "7">>[k + 1]

\* byte k of the tag replaced by another value: 16 bytes that differ from the
\* tag they were made from, written as that tag with a version no wire has
OtherTag(tag, k) == [tag EXCEPT !.ver = -1 - k]

\* what reaches the verifier instead of the link: a wire of another length,
\* another version byte, one byte of flags, iat, expDelta, nonce or tag
\* changed, or ("signed") fields of the key holder's choice under a tag made
\* with the key for the context of the link
CompactForgeries(t, k, m) ==
    {[kind |-> "len", token |-> [t EXCEPT !.len = n]] :
        n \in {0, CompactLen - 1, CompactLen + 1}}
    \cup {[kind |-> "ver", token |-> [t EXCEPT !.ver = v]] : v \in {0, 2}}
    \cup {[kind |-> "flags", token |-> [t EXCEPT !.flags = (t.flags + d) % 256]] :
             d \in ByteDeltas}
    \cup {[kind |-> "iat",
           token |-> [t EXCEPT !.iat = SetByte(t.iat, b, (ByteOf(t.iat, b) + d) % 256)]] :
             b \in 0 .. 3, d \in ByteDeltas}
    \cup {[kind |-> "expDelta",
           token |-> [t EXCEPT !.expDelta =
                          SetByte(t.expDelta, b, (ByteOf(t.expDelta, b) + d) % 256)]] :
             b \in 0 .. 3, d \in ByteDeltas}
    \cup {[kind |-> "nonce", token |-> [t EXCEPT !.nonce = OtherNonce(t.nonce, b)]] :
             b \in 0 .. 7}
    \cup {[kind |-> "tag", token |-> [t EXCEPT !.tag = OtherTag(t.tag, b)]] :
             b \in 0 .. 15}
    \cup {[kind |-> "signed",
           token |-> [t EXCEPT !.ver = v, !.flags = f, !.expDelta = e,
                               !.tag = CompactTag(k, v, f, t.iat, e, t.nonce,
                                                  m.iid, ToUint32(m.tv))]] :
             v \in {1, 2}, f \in 0 .. 3, e \in {0, LinkTtl, BypassTtl}}

CompactForge ==
    /\ lab.pc = "made"
    /\ \E f \in CompactForgeries(lab.token, lab.key, lab.made) :
          lab' = [lab EXCEPT !.pc = "forged", !.token = f.token, !.forged = f.kind]
    /\ UNCHANGED serverVars

\* the contexts a caller can verify with: the one of the mint, or another
\* key, another instance id, or another counter
CheckContexts(k, m) ==
    LET other == CHOOSE i \in Instances : i # m.iid
        same == [key |-> k, iid |-> m.iid, tv |-> m.tv]
    IN {same, [same EXCEPT !.key = BenchKey(other)], [same EXCEPT !.iid = other]}
       \cup {[same EXCEPT !.tv = tv] : tv \in {{}} \cup {{c} : c \in 0 .. MaxCounter}}

\* verifyCompactToken({ token, signingKey, instanceId, tokenVersion, nowSec });
\* link: what the ?token branch of the page gate answers to the same token
\* for the instance of the mint once its record holds the counter verified
\* with
CompactCheck ==
    /\ lab.pc \in {"made", "forged"}
    /\ \E c \in CheckContexts(lab.key, lab.made), now \in CheckNows(lab.made.iat, lab.made.ttlSeconds) :
          LET inst == [instances[lab.made.iid] EXCEPT !.tokenVersion = c.tv]
              ev == [NoEvent EXCEPT !.qs = [kind |-> "token", tok |-> lab.token]]
          IN lab' = [lab EXCEPT
                        !.pc = "verified",
                        !.ask = [key |-> c.key, iid |-> c.iid, tv |-> c.tv, now |-> now],
                        !.res = verifyCompactToken(lab.token, c.key, c.iid, c.tv, now),
                        !.link = LegacyBranch(inst, webhooks[inst.WebhookID], ev,
                                              NoEnv, now).ok]
    /\ UNCHANGED serverVars

CompactAgain ==
    /\ lab.pc = "verified"
    /\ lab' = CompactIdle
    /\ UNCHANGED serverVars

NextCompact == CompactMint \/ CompactForge \/ CompactCheck \/ CompactAgain

SpecCompact == InitCompact /\ [][NextCompact]_vars

\* ------------------------------------------------- the compact-token claims
CompactChecked == lab.pc = "verified"

\* the tag carried is the MAC of the fields carried, under the key, instance
\* id and counter the verifier was given
MacMatches ==
    lab.token.tag = CompactTag(lab.ask.key, lab.token.ver, lab.token.flags,
                               lab.token.iat, lab.token.expDelta, lab.token.nonce,
                               lab.ask.iid, ToUint32(lab.ask.tv))

\* C15: verifyCompactToken checks len, ver, mac, exp in this order: a wire
\* that is not 34 bytes long gives "len"; a 34-byte wire whose version byte
\* is not 1 gives "ver" whether or not its tag matches; a version-1 wire whose
\* tag does not match gives "mac"; "exp" is answered only to a wire whose tag
\* matches.
C15_CheckOrder ==
    /\ CompactLen = 34
    /\ CompactChecked =>
          /\ lab.token.len # 34 => (~lab.res.ok /\ lab.res.reason = "len")
          /\ (lab.token.len = 34 /\ lab.token.ver # 1)
                => (~lab.res.ok /\ lab.res.reason = "ver")
          /\ (lab.token.len = 34 /\ lab.token.ver = 1 /\ ~MacMatches)
                => (~lab.res.ok /\ lab.res.reason = "mac")
          /\ lab.res.reason = "exp"
                => (lab.token.len = 34 /\ lab.token.ver = 1 /\ MacMatches)

\* a wire of version 2 under a tag the key holder made for it: answered "ver"
\* although the tag matches
C15_Witness ==
    /\ CompactChecked
    /\ lab.token.len = 34 /\ lab.token.ver = 2 /\ MacMatches
    /\ lab.res.reason = "ver"

\* the link reached the verifier as makeCompactToken returned it
AsMinted == lab.forged = ""

\* the verifier was given another key, another instance id or another counter
\* (as u32) than the mint
OtherContext ==
    \/ lab.ask.key # lab.key
    \/ lab.ask.iid # lab.made.iid
    \/ ToUint32(lab.ask.tv) # ToUint32(lab.made.tv)

\* C16: a compact token minted for (key, instanceId, counter) fails
\* verifyCompactToken with "mac" whenever it is verified with another key,
\* another instanceId or another counter; so once the record of an instance
\* with legacy key material holds another counter than the one a link was
\* minted at, the ?token branch of the page gate no longer accepts the link.
C16_BoundToContext ==
    (CompactChecked /\ AsMinted)
        => /\ OtherContext => (~lab.res.ok /\ lab.res.reason = "mac")
           /\ (instances[lab.made.iid].authKey # ""
                  /\ ToUint32(lab.ask.tv) # ToUint32(lab.made.tv)) => ~lab.link

\* a link minted for I2 at counter 0, verified with the key and instance id
\* of the mint after the counter was bumped to 1
C16_Witness ==
    /\ CompactChecked /\ AsMinted
    /\ lab.made.iid = "I2" /\ lab.made.tv = {0}
    /\ lab.ask.key = lab.key /\ lab.ask.iid = "I2" /\ lab.ask.tv = {1}
    /\ lab.res.reason = "mac" /\ ~lab.link

\* the verifier was given the key, instance id and counter of the mint
MintContext ==
    /\ lab.ask.key = lab.key
    /\ lab.ask.iid = lab.made.iid
    /\ lab.ask.tv = lab.made.tv

\* one byte of the flags, iat, expDelta, nonce or tag field was changed
OneByteChanged == lab.forged \in {"flags", "iat", "expDelta", "nonce", "tag"}

\* the wire differs from the minted one in exactly the field named
ChangedField(t, m) ==
    {f \in {"flags", "iat", "expDelta", "nonce", "tag"} : t[f] # m[f]}

\* C17: a minted compact token in which any single byte of the flags, iat,
\* expDelta, nonce or tag field was changed is answered ok = FALSE by
\* verifyCompactToken called with the key, instance id and counter of the mint,
\* at every instant.
C17_TamperDetected ==
    (CompactChecked /\ OneByteChanged /\ MintContext)
        => /\ ChangedField(lab.token,
                           makeCompactToken(lab.key, lab.made.iid, lab.made.tv,
                                            lab.made.iat, lab.made.ttlSeconds,
                                            lab.made.nonce)) = {lab.forged}
           /\ ~lab.res.ok

\* the low bit of the flags byte of a link with ttl 600 was flipped, which
\* would switch the expiry off: the link is rejected after as before its expiry
C17_Witness ==
    /\ CompactChecked /\ MintContext
    /\ lab.forged = "flags" /\ lab.made.ttlSeconds = LinkTtl
    /\ lab.token.flags % 2 = 0
    /\ lab.ask.now > lab.made.iat + LinkTtl
    /\ ~lab.res.ok /\ lab.res.reason = "mac"

\* the wire is a version-1 wire of the right length whose tag matches
ValidMac == lab.token.len = CompactLen /\ lab.token.ver = 1 /\ MacMatches

FlagSet == lab.token.flags % 2 = 1

\* C18: for a token with a valid MAC whose expiry flag bit is set and whose
\* expDelta (ttlSeconds) is not 3600, verifyCompactToken returns ok iff
\* now <= iat + expDelta and otherwise fails with "exp"; a token minted with
\* ttlSeconds = 0 has the flag clear and verifies at every now.
C18_Expiry ==
    CompactChecked =>
        /\ (ValidMac /\ FlagSet /\ lab.token.expDelta # 3600)
              => /\ lab.res.ok <=> lab.ask.now <= lab.token.iat + lab.token.expDelta
                 /\ ~lab.res.ok => lab.res.reason = "exp"
        /\ (AsMinted /\ lab.made.ttlSeconds = 0)
              => /\ lab.token.flags = 0
                 /\ MintContext => lab.res.ok

\* a link minted with ttl 3601, verified in its context one second after
\* iat + 3601
C18_Witness ==
    /\ CompactChecked /\ AsMinted /\ MintContext
    /\ ValidMac /\ FlagSet /\ lab.token.expDelta = 3601
    /\ lab.ask.now = lab.token.iat + 3602
    /\ ~lab.res.ok /\ lab.res.reason = "exp"

\* C19: a compact token with a valid MAC, the expiry flag set and expDelta
\* (ttlSeconds) = 3600 verifies as ok at every now, also far past iat + 3600;
\* the exemption depends on that value only: a token minted with any other
\* positive ttlSeconds is ok up to iat + ttlSeconds and answered "exp" after.
C19_Bypass ==
    CompactChecked =>
        /\ (ValidMac /\ lab.token.expDelta = 3600) => lab.res.ok
        /\ (AsMinted /\ MintContext /\ lab.made.ttlSeconds > 0
               /\ lab.made.ttlSeconds # 3600)
              => /\ FlagSet /\ lab.token.expDelta = lab.made.ttlSeconds
                 /\ lab.res.ok <=> lab.ask.now <= lab.made.iat + lab.made.ttlSeconds
                 /\ ~lab.res.ok => lab.res.reason = "exp"

\* a link minted with ttl 3600, verified in its context a hundred hours
\* after iat
C19_Witness ==
    /\ CompactChecked /\ AsMinted /\ MintContext
    /\ lab.made.ttlSeconds = 3600 /\ FlagSet
    /\ lab.ask.now = lab.made.iat + 360000
    /\ lab.res.ok

\* C20: every ok result of verifyCompactToken carries iat, equal to the iat
\* field of the token, and, when the expiry flag is set, exp = iat + expDelta.
C20_OkCarriesTimes ==
    (CompactChecked /\ lab.res.ok)
        => /\ lab.res.iat = {lab.token.iat}
           /\ FlagSet => lab.res.exp = {lab.token.iat + lab.token.expDelta}

\* a link minted with ttl 3600, verified in its context: ok with exp and
\* without iat
C20_Failing ==
    /\ CompactChecked /\ AsMinted /\ MintContext
    /\ lab.made.ttlSeconds = BypassTtl
    /\ lab.res.ok /\ lab.res.iat = {} /\ lab.res.exp = {lab.token.iat + BypassTtl}

AuthKeys == {"", "ak2", "I2", "JWT_COOKIE|I1", "JWT_COOKIE|I2"}

NoDerived == [ok |-> FALSE, key |-> NoKey]

KeysIdle ==
    [pc |-> "idle", secret |-> "", iid |-> "", authKey |-> "",
     session |-> NoDerived, legacy |-> NoDerived,
     signedWith |-> "", verifiedWith |-> "", now |-> 0,
     jwt |-> NoJwt, link |-> NoLink, jwtRes |-> NoVerdict, linkRes |-> NoOutcome]

InitKeys ==
    /\ instances = InitInstances
    /\ webhooks = InitWebhooks([passwordProtected |-> TRUE,
                                authenticationType |-> ""],
                               [ClientID |-> "B", passwordProtected |-> TRUE])
    /\ users = InitUsers
    /\ submits = [i \in Instances |-> 0]
    /\ tick = 0
    /\ jar = [n \in CookieNames |-> NoCookie]
    /\ rq = Idle
    /\ served = 0
    /\ lab = KeysIdle

\* both derivations from one secret; a missing secret makes both throw
KeysDerive ==
    /\ lab.pc = "idle"
    /\ \E secret \in BenchSecrets \cup {""}, iid \in Instances, ak \in AuthKeys :
          lab' = [KeysIdle EXCEPT
                     !.pc = "derived", !.secret = secret, !.iid = iid,
                     !.authKey = ak,
                     !.session = deriveCookieSigningKey(secret, iid),
                     !.legacy = deriveSigningKey(secret, ak)]
    /\ UNCHANGED serverVars

KeyNamed(which) == IF which = "session" THEN lab.session.key ELSE lab.legacy.key

\* a session JWT and a compact token, both signed with one of the two keys
KeysSign ==
    /\ lab.pc = "derived"
    /\ lab.session.ok /\ lab.legacy.ok
    /\ \E which \in {"session", "legacy"}, tv \in 0 .. MaxCounter :
          lab' = [lab EXCEPT
                     !.pc = "signed", !.signedWith = which,
                     !.jwt = createJwtHs256(KeyNamed(which), lab.iid, tv,
                                            COOKIE_TTL_SEC, "tgl", "wi:" \o lab.iid,
                                            BenchIat),
                     !.link = makeCompactToken(KeyNamed(which), lab.iid, {tv},
                                               BenchIat, LinkTtl, "n1")]
    /\ UNCHANGED serverVars

\* both verified with one of the two keys, everything else as signed
KeysVerify ==
    /\ lab.pc = "signed"
    /\ \E which \in {"session", "legacy"}, now \in {BenchIat, BenchIat + LinkTtl} :
          lab' = [lab EXCEPT
                     !.pc = "verified", !.verifiedWith = which, !.now = now,
                     !.jwtRes = verifyJwtHs256(lab.jwt, KeyNamed(which), "tgl",
                                               "wi:" \o lab.iid, now, ClockSkewSec),
                     !.linkRes = verifyCompactToken(lab.link, KeyNamed(which),
                                                    lab.iid, lab.jwt.p.tv, now)]
    /\ UNCHANGED serverVars

KeysAgain ==
    /\ lab.pc \in {"derived", "verified"}
    /\ lab' = KeysIdle
    /\ UNCHANGED serverVars

NextKeys == KeysDerive \/ KeysSign \/ KeysVerify \/ KeysAgain

SpecKeys == InitKeys /\ [][NextKeys]_vars

\* both derivations returned a key
BothDerived == lab.pc # "idle" /\ lab.session.ok /\ lab.legacy.ok

\* the legacy key material is the session scheme's label followed by the
\* instance id
MaterialIsLabelled == lab.authKey = "JWT_COOKIE|" \o lab.iid

\* the credentials were verified with the key of the other scheme
CrossVerified == lab.pc = "verified" /\ lab.verifiedWith # lab.signedWith

C23_CredentialJudged ==
    /\ Done
    /\ HeaderDecodes
    /\ rq.env.secretUp
    /\ ~QsPresent(rq.event)
    /\ Sent.esc = "none"

\* the same request presenting a string that is no token at all
C23_Garbage ==
    [rq.event EXCEPT !.cookies.session[cookieNameFor(rq.instance.id)] = GarbageCookie]

\* status code and body of the answer to C23_Garbage
C23_GarbageAnswer ==
    IF rq.op = "API"
    THEN [statusCode |-> "401",
          body |-> verifyJWTForAPI(rq.instance, rq.webhook, C23_Garbage, rq.env,
                                   rq.now).error]
    ELSE LET g == verifyAccessOrPasswordPage(rq.instance, rq.webhook, C23_Garbage,
                                             rq.env, rq.now)
             r == IF rq.op = "GET"
                  THEN handleGetRequest(rq.instance, rq.webhook, g, rq.env, rq.now)
                  ELSE PostSubmit(rq.webhook, g)
         IN [statusCode |-> r.statusCode, body |-> r.body]

\* the request was denied by the page gate of a protected instance
C23_PageDenied == SessionGated /\ ~rq.gate.ok /\ ~rq.gate.threw

\* C23: for a protected instance, status code and body of the response to a
\* denied request are the same whatever was wrong with the credential
\* presented (garbage, wrong, expired or revoked): they equal the response to
\* the same request presenting a string that is no token, on the page gate
\* and on the upload API.
C23_DenialsAlike ==
    (C23_CredentialJudged /\ (C23_PageDenied \/ (ApiGated /\ ~rq.api.ok)))
        => /\ rq.resp.statusCode = C23_GarbageAnswer.statusCode
           /\ rq.resp.body = C23_GarbageAnswer.body

\* the page gate alone answers all denied credentials alike
C23_PageAlike ==
    (C23_CredentialJudged /\ C23_PageDenied)
        => /\ rq.resp.statusCode = C23_GarbageAnswer.statusCode
           /\ rq.resp.body = C23_GarbageAnswer.body

\* the upload API tells a revoked cookie from a string that is no token
C23_Failing ==
    /\ C23_CredentialJudged /\ ApiGated /\ C1_Revoked
    /\ rq.resp.statusCode = "401"
    /\ rq.resp.body = "Token has been revoked"
    /\ C23_GarbageAnswer.body = "Invalid authentication token"

\* --------------------------------------------------------------------- C24
\* The gates with the secret store not answering, on requests whose Cookie
\* header decodes: no credential, a session cookie minted for the instance at
\* the counter as loaded, a string that is no JWT; no ?token, a link minted
\* for the instance, a string that is no link.
OutageInputs(instance, webhook) ==
    LET fresh == MintSessionCookie(instance, webhook, nowSec).value
        qs == {x \in QsChoices(instance, webhook) :
                  x.kind = "absent" \/ (x.kind = "token" /\ x.tok.expDelta = 0)}
    IN {[event |-> [NoEvent EXCEPT !.qs = q, !.cookies = WithCookie(instance, c)],
         env |-> [NoEnv EXCEPT !.secretUp = up]] :
            q \in qs, c \in {NoCookie, fresh, GarbageCookie}, up \in BOOLEAN}

\* handleGetRequest
OutageGet ==
    /\ rq.pc = "loaded" /\ rq.op = "GET"
    /\ \E x \in OutageInputs(rq.instance, rq.webhook) :
          LET g == verifyAccessOrPasswordPage(rq.instance, rq.webhook, x.event,
                                              x.env, nowSec)
              r == handleGetRequest(rq.instance, rq.webhook, g, x.env, nowSec)
          IN /\ rq' = [rq EXCEPT !.pc = "done", !.event = x.event, !.env = x.env,
                                 !.now = nowSec, !.gate = g, !.resp = r]
             /\ instances' = Written(g, r).instances
             /\ submits' = Written(g, r).submits
    /\ UNCHANGED <<webhooks, users, tick, jar, served, lab>>

\* handlePostRequest, a form submission
OutagePost ==
    /\ rq.pc = "loaded" /\ rq.op = "POST"
    /\ \E x \in OutageInputs(rq.instance, rq.webhook) :
          LET g == IF rq.webhook.passwordProtected
                   THEN verifyAccessOrPasswordPage(rq.instance, rq.webhook, x.event,
                                                   x.env, nowSec)
                   ELSE NoGate
              r == PostSubmit(rq.webhook, g)
          IN /\ rq' = [rq EXCEPT !.pc = "done", !.event = x.event, !.env = x.env,
                                 !.now = nowSec, !.gate = g, !.resp = r]
             /\ instances' = Written(g, r).instances
             /\ submits' = Written(g, r).submits
    /\ UNCHANGED <<webhooks, users, tick, jar, served, lab>>

\* handleUploadUrlRequest
OutageApi ==
    /\ rq.pc = "loaded" /\ rq.op = "API"
    /\ \E x \in {y \in OutageInputs(rq.instance, rq.webhook) :
                    y.event.qs.kind = "absent"} :
          LET a == verifyJWTForAPI(rq.instance, rq.webhook, x.event, x.env, nowSec)
          IN rq' = [rq EXCEPT !.pc = "done", !.event = x.event, !.env = x.env,
                              !.now = nowSec, !.api = a,
                              !.resp = [NoResp EXCEPT
                                            !.statusCode = IF a.ok THEN "200" ELSE "401",
                                            !.body = a.error]]
    /\ UNCHANGED <<instances, webhooks, users, submits, tick, jar, served, lab>>

NextOutage ==
    \/ \E op \in {"GET", "POST", "API"}, i \in Instances : Begin(op, i)
    \/ OutageGet
    \/ OutagePost
    \/ OutageApi
    \/ Return
    \/ \E i \in Instances : Bump(i)

SpecOutage == Init /\ [][NextOutage]_vars

\* a gate was checking a credential of the request when the secret store did
\* not answer
C24_StoreFailed ==
    /\ Done /\ HeaderDecodes /\ ~rq.env.secretUp
    /\ \/ SessionGated /\ rq.gate.branch \in {"legacy", "cookie"}
       \/ ApiGated /\ Sent.esc = "none"

\* status and body of the answer to the same request carrying no credential
\* while the store answers: "not authenticated"
C24_Unauthenticated ==
    IF rq.op = "API"
    THEN <<"401", verifyJWTForAPI(rq.instance, rq.webhook, NoEvent, NoEnv,
                                  rq.now).error>>
    ELSE LET g == verifyAccessOrPasswordPage(rq.instance, rq.webhook, NoEvent,
                                             NoEnv, rq.now)
             r == IF rq.op = "GET"
                  THEN handleGetRequest(rq.instance, rq.webhook, g, NoEnv, rq.now)
                  ELSE PostSubmit(rq.webhook, g)
         IN <<r.statusCode, r.body>>

C24_Answer == <<rq.resp.statusCode, rq.resp.body>>

\* C24: when the secret store fails while a gate is checking a credential,
\* the caller receives an answer that differs from the answer to a request
\* that is not authenticated (no login challenge).
C24_FailureDistinct ==
    C24_StoreFailed => C24_Answer # C24_Unauthenticated

\* the upload API alone: its answer to a store failure differs
C24_ApiDistinct ==
    (C24_StoreFailed /\ ApiGated) => C24_Answer # C24_Unauthenticated

\* GET with a session cookie while the store is down: the cookie branch
\* catches the failure and denies with the password page, which the handler
\* sends as it does to a request without cookie
C24_Failing ==
    /\ C24_StoreFailed /\ rq.op = "GET"
    /\ rq.gate.branch = "cookie"
    /\ ~rq.gate.ok /\ ~rq.gate.threw
    /\ rq.gate.html = "PASSWORD_PAGE_HTML"
    /\ C24_Answer = <<"200", "PASSWORD_PAGE_HTML">>
    /\ C24_Unauthenticated = <<"200", "PASSWORD_PAGE_HTML">>

\* --------------------------------------------------------------------- C25
\* the request sent a session JWT minted for its instance under a counter
\* below the one it read
C25_StaleCookie ==
    /\ MintedFor(Sent, rq.instance.id)
    /\ Sent.text.p.tv # {}
    /\ ToUint32(Sent.text.p.tv) < ToUint32(rq.instance.tokenVersion)

\* the request sent a link minted for its instance under a counter below the
\* one it read
C25_StaleLink ==
    /\ QsPresent(rq.event)
    /\ \E tv \in 0 .. MaxCounter, ttl \in {0, LinkTtl} :
          /\ tv < ToUint32(rq.instance.tokenVersion)
          /\ rq.event.qs.tok =
                 makeCompactToken(LegacyKeyOf(rq.instance, rq.webhook),
                                  rq.instance.id, {tv}, T0, ttl, "n1")

\* no gate accepts a credential minted under a counter below the one read
C25_StaleRejected ==
    Done =>
        /\ (ApiGated /\ C25_StaleCookie) => ~rq.api.ok
        /\ (SessionGated /\ rq.gate.ok /\ rq.gate.branch = "cookie") =>
              ~C25_StaleCookie
        /\ (SessionGated /\ rq.gate.ok /\ rq.gate.branch = "legacy") =>
              ~C25_StaleLink

\* every request begins by reading the records as the tables hold them then,
\* and keeps nothing of the request before it
C25_ReadsTable ==
    (rq.pc = "idle" /\ rq'.pc = "loaded") =>
        /\ rq'.instance = instances[rq'.instance.id]
        /\ rq'.webhook = webhooks[rq'.instance.WebhookID]
        /\ rq'.gate = NoGate /\ rq'.api = NoApi /\ rq'.env = NoEnv

\* C25: revocation is read fresh on every request: each request reads the
\* counter as the table holds it at that moment, nothing of an earlier request
\* is kept, and under every interleaving of requests and bumps no gate
\* accepts a session cookie or a legacy link minted under a counter below the
\* one the request read.
C25_FreshRevocation == [] C25_StaleRejected /\ [][C25_ReadsTable]_vars

\* a request that read the bumped counter and sent both the link and the
\* session cookie minted under the previous one is denied
C25_Witness ==
    /\ SessionGated /\ HeaderDecodes /\ LegacyApplies
    /\ C25_StaleCookie /\ C25_StaleLink
    /\ rq.instance = instances[rq.instance.id]
    /\ ~rq.gate.ok /\ ~rq.gate.threw

\* --------------------------------------------------------------------- C26
\* the response of the request sets a session cookie
C26_Mints == Done /\ rq.resp.setCookie.present

\* the session cookie the client holds from an earlier response
C26_Earlier == jar[cookieNameFor(rq.instance.id)]

C26_Later == rq.resp.setCookie.value

\* c was minted for the instance of the request, is unexpired and carries the
\* counter the table holds
C26_Live(c) ==
    /\ MintedFor(c, rq.instance.id)
    /\ c.text.p.tv = {ToUint32(instances[rq.instance.id].tokenVersion)}
    /\ \A e \in c.text.p.exp : nowSec < e

\* both gates accept a request that reads the instance now and sends c
C26_Accepted(c) ==
    LET ev == [NoEvent EXCEPT !.cookies = WithCookie(rq.instance, c)]
        instance == instances[rq.instance.id]
    IN /\ verifyAccessOrPasswordPage(instance, rq.webhook, ev, NoEnv, nowSec).ok
       /\ verifyJWTForAPI(instance, rq.webhook, ev, NoEnv, nowSec).ok

\* the records of the tables without the visit statistics of the page view
C26_Stored(tbl) ==
    [i \in Instances |->
        [tbl[i] EXCEPT !.numberOfVisits = {}, !.lastPingedAt = {}]]

\* a step in which a handler mints a session cookie writes nothing the gates
\* read: the password exchange writes nothing at all, the GET only the visit
\* statistics of the page it delivers
C26_MintWritesNothing ==
    (rq.pc = "loaded" /\ rq'.pc = "done" /\ rq'.resp.setCookie.present) =>
        /\ C26_Stored(instances') = C26_Stored(instances)
        /\ rq'.event.auth => instances' = instances
        /\ webhooks' = webhooks /\ users' = users /\ submits' = submits
        /\ jar' = jar

\* C26: minting is repeatable and non-invalidating: the mint of a session
\* cookie changes no stored state, and after a second mint for the same
\* instance both the earlier and the later cookie are accepted by the gates,
\* each as long as it is unexpired and carries the counter of the instance.
C26_MintRepeatable ==
    /\ [] (C26_Mints =>
              \A c \in {C26_Earlier, C26_Later} : C26_Live(c) => C26_Accepted(c))
    /\ [][C26_MintWritesNothing]_vars

\* a second mint at a later instant: two different live cookies of one
\* instance, both accepted
C26_Witness ==
    /\ C26_Mints
    /\ rq.webhook.passwordProtected
    /\ C26_Live(C26_Earlier) /\ C26_Live(C26_Later)
    /\ C26_Earlier # C26_Later
    /\ C26_Accepted(C26_Earlier) /\ C26_Accepted(C26_Later)

\* ------------------------------------------------------------ the CSRF guard
\* Header values that are URLs are sequences of characters, so that new URL()
\* and String.startsWith are computed character by character.
LowerLetters == {"a", "b", "e", "h", "i", "l", "n", "o", "p", "s", "t", "u"}

DigitChars == {"0", "3", "4", "8"}

\* first index of s holding a character of cs, 0 when there is none
IndexOfAny(s, cs) ==
    IF \E i \in 1 .. Len(s) : s[i] \in cs
    THEN CHOOSE i \in 1 .. Len(s) :
            s[i] \in cs /\ \A j \in 1 .. i - 1 : s[j] \notin cs
    ELSE 0

\* last index of s holding c, 0 when there is none
LastIndexOf(s, c) ==
    IF \E i \in 1 .. Len(s) : s[i] = c
    THEN CHOOSE i \in 1 .. Len(s) :
            s[i] = c /\ \A j \in i + 1 .. Len(s) : s[j] # c
    ELSE 0

From(s, i) == SubSeq(s, i, Len(s))

\* String.prototype.startsWith
StartsWith(s, prefix) ==
    Len(prefix) =< Len(s) /\ SubSeq(s, 1, Len(prefix)) = prefix

RECURSIVE SkipSlashes(_)
SkipSlashes(s) ==
    IF s # <<>> /\ Head(s) = "/" THEN SkipSlashes(Tail(s)) ELSE s

HttpsScheme == <<"h", "t", "t", "p", "s">>

HttpScheme == <<"h", "t", "t", "p">>

DefaultPort(scheme) ==
    IF scheme = HttpsScheme THEN <<"4", "4", "3">>
    ELSE IF scheme = HttpScheme THEN <<"8", "0">>
    ELSE <<>>

NoUrl == [ok |-> FALSE, protocol |-> <<>>, host |-> <<>>]

\* new URL(v) without a base, for values over the characters above and
\* ":/@.?#": the scheme up to the first ":", for http(s) any number of
\* slashes, the authority up to "/", "?" or "#", user info up to the last
\* "@", the port (dropped when it is the scheme's default).  protocol is the
\* scheme with its ":", host the host name with the port that was kept.
\* [ok |-> FALSE] = it throws.
URL(v) ==
    LET c == IndexOfAny(v, {":"})
        scheme == SubSeq(v, 1, c - 1)
        rest == From(v, c + 1)
        special == scheme \in {HttpsScheme, HttpScheme}
        slashed == Len(rest) >= 2 /\ rest[1] = "/" /\ rest[2] = "/"
        after == IF special THEN SkipSlashes(rest)
                 ELSE IF slashed THEN From(rest, 3) ELSE <<>>
        e == IndexOfAny(after, {"/", "?", "#"})
        authority == IF e = 0 THEN after ELSE SubSeq(after, 1, e - 1)
        hostport == From(authority, LastIndexOf(authority, "@") + 1)
        pc == IndexOfAny(hostport, {":"})
        hostname == IF pc = 0 THEN hostport ELSE SubSeq(hostport, 1, pc - 1)
        port == IF pc = 0 THEN <<>> ELSE From(hostport, pc + 1)
        kept == IF port = DefaultPort(scheme) THEN <<>> ELSE port
    IN IF c =< 1 THEN NoUrl
       ELSE IF scheme[1] \notin LowerLetters THEN NoUrl
       ELSE IF \E i \in 1 .. Len(scheme) :
                  scheme[i] \notin LowerLetters \cup DigitChars \cup {"."}
       THEN NoUrl
       ELSE IF special /\ hostname = <<>> THEN NoUrl
       ELSE IF \E i \in 1 .. Len(port) : port[i] \notin DigitChars THEN NoUrl
       ELSE [ok |-> TRUE, protocol |-> scheme \o <<":">>,
             host |-> IF kept = <<>> THEN hostname
                      ELSE hostname \o <<":">> \o kept]

\* key.toLowerCase() for the header names a request can spell
toLowerCase(key) ==
    IF key \in {"Origin", "ORIGIN", "origin"} THEN "origin"
    ELSE IF key \in {"Referer", "REFERER", "referer"} THEN "referer"
    ELSE IF key \in {"X-Requested-With", "X-REQUESTED-WITH", "x-requested-with"}
    THEN "x-requested-with"
    ELSE key

\* normalizedHeaders[name] after the loop over Object.entries(headers): the
\* value of the last entry whose lowercased key is name; has = FALSE and the
\* value none when there is no such entry (undefined)
Normalized(headers, name, none) ==
    LET hits == {i \in 1 .. Len(headers) : toLowerCase(headers[i].key) = name}
    IN IF hits = {} THEN [has |-> FALSE, value |-> none]
       ELSE [has |-> TRUE,
             value |-> headers[CHOOSE i \in hits : \A j \in hits : j =< i].value]

CsrfOk == [ok |-> TRUE, error |-> ""]

CsrfFail(error) == [ok |-> FALSE, error |-> error]

\* validateCSRFHeaders with "origin || referer" reading the Referer first
validateCSRFHeadersRefererFirst(headers, allowedOrigins, requireXRW) ==
    LET nOrigin == Normalized(headers, "origin", <<>>)
        nReferer == Normalized(headers, "referer", <<>>)
        origin == IF nReferer.value # <<>> THEN nReferer.value ELSE nOrigin.value
        originUrl == URL(origin)
        originBase == originUrl.protocol \o <<"/", "/">> \o originUrl.host
        xrw == Normalized(headers, "x-requested-with", "")
    IN IF Len(allowedOrigins) > 0 /\ origin = <<>>
       THEN CsrfFail("Missing Origin/Referer header")
       ELSE IF Len(allowedOrigins) > 0 /\ ~originUrl.ok
       THEN CsrfFail("Invalid Origin header")
       ELSE IF /\ Len(allowedOrigins) > 0
               /\ ~\E k \in 1 .. Len(allowedOrigins) :
                      StartsWith(originBase, allowedOrigins[k])
       THEN CsrfFail("Origin not allowed")
       ELSE IF requireXRW /\ (~xrw.has \/ xrw.value # "XMLHttpRequest")
       THEN CsrfFail("Missing or invalid X-Requested-With header")
       ELSE CsrfOk

\* validateCSRFHeaders looking the custom header up under its lowercase
\* spelling only
validateCSRFHeadersExactName(headers, allowedOrigins, requireXRW) ==
    LET nOrigin == Normalized(headers, "origin", <<>>)
        nReferer == Normalized(headers, "referer", <<>>)
        origin == IF nOrigin.value # <<>> THEN nOrigin.value ELSE nReferer.value
        originUrl == URL(origin)
        originBase == originUrl.protocol \o <<"/", "/">> \o originUrl.host
        xrw == Normalized([i \in 1 .. Len(headers) |->
                              IF headers[i].key = "x-requested-with"
                              THEN headers[i]
                              ELSE [headers[i] EXCEPT !.key = "other"]],
                          "x-requested-with", "")
    IN IF Len(allowedOrigins) > 0 /\ origin = <<>>
       THEN CsrfFail("Missing Origin/Referer header")
       ELSE IF Len(allowedOrigins) > 0 /\ ~originUrl.ok
       THEN CsrfFail("Invalid Origin header")
       ELSE IF /\ Len(allowedOrigins) > 0
               /\ ~\E k \in 1 .. Len(allowedOrigins) :
                      StartsWith(originBase, allowedOrigins[k])
       THEN CsrfFail("Origin not allowed")
       ELSE IF requireXRW /\ (~xrw.has \/ xrw.value # "XMLHttpRequest")
       THEN CsrfFail("Missing or invalid X-Requested-With header")
       ELSE CsrfOk

\* validateCSRFHeaders(headers, allowedOrigins, requireXRW): { ok, error }.
\* headers: the entries of the headers object in order; an absent or empty
\* header value is falsy.
validateCSRFHeaders(headers, allowedOrigins, requireXRW) ==
    LET nOrigin == Normalized(headers, "origin", <<>>)
        nReferer == Normalized(headers, "referer", <<>>)
        origin == IF nOrigin.value # <<>> THEN nOrigin.value ELSE nReferer.value
        originUrl == URL(origin)
        originBase == originUrl.protocol \o <<"/", "/">> \o originUrl.host
        xrw == Normalized(headers, "x-requested-with", "")
    IN IF Len(allowedOrigins) > 0 /\ origin = <<>>
       THEN CsrfFail("Missing Origin/Referer header")
       ELSE IF Len(allowedOrigins) > 0 /\ ~originUrl.ok
       THEN CsrfFail("Invalid Origin header")
       ELSE IF /\ Len(allowedOrigins) > 0
               /\ ~\E k \in 1 .. Len(allowedOrigins) :
                      StartsWith(originBase, allowedOrigins[k])
       THEN CsrfFail("Origin not allowed")
       ELSE IF requireXRW /\ (~xrw.has \/ xrw.value # "XMLHttpRequest")
       THEN CsrfFail("Missing or invalid X-Requested-With header")
       ELSE CsrfOk

\* ------------------------------------------------------- the CSRF guard bench
\* "https://"
HttpsPrefix == HttpsScheme \o <<":", "/", "/">>

\* the application's host "a.io", a foreign host "e.io", and the foreign host
\* "a.io.e.io" whose name begins with the application's
AppHost == <<"a", ".", "i", "o">>

EvilHost == <<"e", ".", "i", "o">>

AppOrigin == HttpsPrefix \o AppHost

\* the allow-lists handed over: none (ALLOWED_ORIGINS unset), the
\* application's origin alone or after another one, and the single empty
\* entry of ALLOWED_ORIGINS=""
AllowLists ==
    {<<>>, <<AppOrigin>>, <<HttpsPrefix \o <<"b", ".", "i", "o">>, AppOrigin>>,
     << <<>> >>}

\* Origin / Referer values: the application's origin, bare, with a path,
\* with its default port, with another port, with user info naming a foreign
\* host, over http; foreign origins; "null"; a host without scheme; nothing
UrlValues ==
    {AppOrigin,
     AppOrigin \o <<"/", "p">>,
     AppOrigin \o <<":", "4", "4", "3">>,
     AppOrigin \o <<":", "8", "0">>,
     AppOrigin \o <<"@">> \o EvilHost,
     HttpScheme \o <<":", "/", "/">> \o AppHost,
     HttpsPrefix \o EvilHost,
     HttpsPrefix \o AppHost \o <<".">> \o EvilHost,
     <<"n", "u", "l", "l">>,
     AppHost,
     <<>>}

OriginEntries ==
    {<<>>} \cup {<<[key |-> k, value |-> v]>> :
                    k \in {"Origin", "origin"}, v \in UrlValues}

RefererEntries ==
    {<<>>,
     <<[key |-> "Referer", value |-> AppOrigin \o <<"/", "p">>]>>,
     <<[key |-> "referer", value |-> AppOrigin \o <<"/", "p">>]>>,
     <<[key |-> "Referer", value |-> HttpsPrefix \o EvilHost \o <<"/">>]>>}

\* X-Requested-With: absent, right under three spellings of the name, wrong
\* in case, empty, and sent twice under two spellings with different values
XrwEntries ==
    {<<>>,
     <<[key |-> "X-Requested-With", value |-> "XMLHttpRequest"]>>,
     <<[key |-> "x-requested-with", value |-> "XMLHttpRequest"]>>,
     <<[key |-> "X-REQUESTED-WITH", value |-> "XMLHttpRequest"]>>,
     <<[key |-> "X-Requested-With", value |-> "xmlhttprequest"]>>,
     <<[key |-> "x-requested-with", value |-> ""]>>,
     <<[key |-> "X-Requested-With", value |-> "XMLHttpRequest"],
       [key |-> "x-requested-with", value |-> "fetch"]>>}

CsrfIdle ==
    [pc |-> "idle", headers |-> <<>>, allowedOrigins |-> <<>>,
     requireXRW |-> FALSE, res |-> CsrfOk]

InitCsrf ==
    /\ instances = InitInstances
    /\ webhooks = InitWebhooks([passwordProtected |-> TRUE,
                                authenticationType |-> ""],
                               [ClientID |-> "B", passwordProtected |-> TRUE])
    /\ users = InitUsers
    /\ submits = [i \in Instances |-> 0]
    /\ tick = 0
    /\ jar = [n \in CookieNames |-> NoCookie]
    /\ rq = Idle
    /\ served = 0
    /\ lab = CsrfIdle

\* handleUploadUrlRequest lines 48-61: the guard applied to the request's
\* headers under the deployment's configuration
CsrfValidate ==
    /\ lab.pc = "idle"
    /\ \E o \in OriginEntries, r \in RefererEntries, x \in XrwEntries,
          allowed \in AllowLists, flag \in BOOLEAN :
          lab' = [pc |-> "validated", headers |-> o \o r \o x,
                  allowedOrigins |-> allowed, requireXRW |-> flag,
                  res |-> validateCSRFHeaders(o \o r \o x, allowed, flag)]
    /\ UNCHANGED serverVars

CsrfAgain ==
    /\ lab.pc = "validated"
    /\ lab' = CsrfIdle
    /\ UNCHANGED serverVars

NextCsrf == CsrfValidate \/ CsrfAgain

SpecCsrf == InitCsrf /\ [][NextCsrf]_vars

\* --------------------------------------------------------------------- C27
\* the guard was applied with a non-empty allow-list
OriginChecked == lab.pc = "validated" /\ Len(lab.allowedOrigins) > 0

SentOrigin == Normalized(lab.headers, "origin", <<>>)

SentReferer == Normalized(lab.headers, "referer", <<>>)

\* the scheme and host of a header value that parses
BaseOf(v) == URL(v).protocol \o <<"/", "/">> \o URL(v).host

\* some allowed entry is a prefix of the value's scheme and host
MatchesAllowed(v) ==
    \E k \in 1 .. Len(lab.allowedOrigins) :
        StartsWith(BaseOf(v), lab.allowedOrigins[k])

\* the outcome of the origin rule for the header value chosen
OriginRule(chosen) ==
    IF chosen = <<>> THEN "Missing Origin/Referer header"
    ELSE IF ~URL(chosen).ok THEN "Invalid Origin header"
    ELSE IF ~MatchesAllowed(chosen) THEN "Origin not allowed"
    ELSE "passes"

\* what the guard answered about the origin
OriginAnswer ==
    IF lab.res.error \in {"Missing Origin/Referer header", "Invalid Origin header",
                          "Origin not allowed"}
    THEN lab.res.error
    ELSE "passes"

\* C27: with a non-empty allow-list the guard judges the Origin header when
\* it is present with a non-empty value and the Referer header otherwise; it
\* fails with missing-origin when neither has a value, with invalid-origin
\* when the value does not parse as a URL, with origin-not-allowed when no
\* allowed entry is a prefix of the parsed scheme and host, and passes the
\* origin check otherwise.
C27_OriginRule ==
    OriginChecked =>
        OriginAnswer = OriginRule(IF SentOrigin.value # <<>> THEN SentOrigin.value
                                  ELSE SentReferer.value)

\* the rule with the Origin header judged whenever it is present, the Referer
\* only when the Origin header is absent
C27_AsStated ==
    OriginChecked =>
        OriginAnswer =
            IF ~SentOrigin.has /\ ~SentReferer.has
            THEN "Missing Origin/Referer header"
            ELSE IF SentOrigin.has
            THEN IF ~URL(SentOrigin.value).ok THEN "Invalid Origin header"
                 ELSE OriginRule(SentOrigin.value)
            ELSE IF ~URL(SentReferer.value).ok THEN "Invalid Origin header"
            ELSE OriginRule(SentReferer.value)

\* a foreign Origin beside a Referer of the application: the Origin decides
C27_Witness ==
    /\ OriginChecked
    /\ SentOrigin.value = HttpsPrefix \o EvilHost
    /\ SentReferer.value = AppOrigin \o <<"/", "p">>
    /\ lab.allowedOrigins = <<AppOrigin>>
    /\ lab.res.error = "Origin not allowed"

\* an Origin header with an empty value beside a Referer of the application:
\* the Referer decides and the origin check passes
C27_EmptyOrigin ==
    /\ OriginChecked
    /\ SentOrigin.has /\ SentOrigin.value = <<>>
    /\ SentReferer.value = AppOrigin \o <<"/", "p">>
    /\ lab.allowedOrigins = <<AppOrigin>>
    /\ OriginAnswer = "passes"

\* the spec's example: Origin https://a.io/p against [https://a.io] passes
C27_Example ==
    (/\ OriginChecked
     /\ SentOrigin.value = AppOrigin \o <<"/", "p">>
     /\ lab.allowedOrigins = <<AppOrigin>>) => OriginAnswer = "passes"

\* --------------------------------------------------------------------- C28
\* the header value the guard judges: Origin or, failing that, Referer
ChosenOrigin ==
    IF SentOrigin.value # <<>> THEN SentOrigin.value ELSE SentReferer.value

\* the value parses and its scheme and host are none of the allowed origins
ForeignOrigin ==
    /\ OriginChecked
    /\ URL(ChosenOrigin).ok
    /\ \A k \in 1 .. Len(lab.allowedOrigins) :
          BaseOf(ChosenOrigin) # lab.allowedOrigins[k]

\* C28: with a non-empty allow-list the guard answers origin-not-allowed to
\* every request whose Origin (or, failing that, Referer) has a scheme and
\* host that is not one of the allowed origins.
C28_ForeignRejected ==
    ForeignOrigin => lab.res.error = "Origin not allowed"

\* Origin https://a.io.e.io against [https://a.io]: a foreign host whose name
\* begins with the allowed one passes the guard
C28_Failing ==
    /\ ForeignOrigin
    /\ SentOrigin.value = HttpsPrefix \o AppHost \o <<".">> \o EvilHost
    /\ URL(SentOrigin.value).host = AppHost \o <<".">> \o EvilHost
    /\ lab.allowedOrigins = <<AppOrigin>>
    /\ lab.res.ok

\* the spec's example: https://e.io against [https://a.io] is rejected
C28_Example ==
    (/\ OriginChecked
     /\ ChosenOrigin = HttpsPrefix \o EvilHost
     /\ \A k \in 1 .. Len(lab.allowedOrigins) :
           lab.allowedOrigins[k] # <<>>) =>
        lab.res.error = "Origin not allowed"

\* --------------------------------------------------------------------- C29
\* the entries of the request's headers named X-Requested-With in any spelling
XrwSent ==
    {i \in 1 .. Len(lab.headers) :
        toLowerCase(lab.headers[i].key) = "x-requested-with"}

\* the header was sent, and with the expected value in every spelling sent
XrwRight ==
    /\ XrwSent # {}
    /\ \A i \in XrwSent : lab.headers[i].value = "XMLHttpRequest"

\* the header was not sent with the expected value under any spelling
XrwWrong == \A i \in XrwSent : lab.headers[i].value # "XMLHttpRequest"

\* the request's headers without X-Requested-With
WithoutXrw == SelectSeq(lab.headers, LAMBDA h : toLowerCase(h.key) # "x-requested-with")

\* C29: when the custom header is required the guard fails unless
\* X-Requested-With, under whatever spelling of its name, equals exactly
\* "XMLHttpRequest" (and then the answer is that of the origin check alone);
\* when it is not required the answer does not depend on the header.
C29_CustomHeader ==
    lab.pc = "validated" =>
        /\ (lab.requireXRW /\ XrwWrong) => ~lab.res.ok
        /\ (lab.requireXRW /\ XrwWrong /\ OriginAnswer = "passes") =>
              lab.res.error = "Missing or invalid X-Requested-With header"
        /\ (lab.requireXRW /\ XrwRight) =>
              lab.res = validateCSRFHeaders(lab.headers, lab.allowedOrigins, FALSE)
        /\ ~lab.requireXRW =>
              lab.res = validateCSRFHeaders(WithoutXrw, lab.allowedOrigins, FALSE)

\* X-REQUESTED-WITH: XMLHttpRequest with the header required and an allowed
\* Origin: the guard passes
C29_Witness ==
    /\ lab.pc = "validated" /\ lab.requireXRW
    /\ XrwRight
    /\ \E i \in XrwSent : lab.headers[i].key = "X-REQUESTED-WITH"
    /\ OriginChecked /\ SentOrigin.value = AppOrigin
    /\ lab.res.ok

\* the value in another case is refused
C29_WrongCase ==
    /\ lab.pc = "validated" /\ lab.requireXRW
    /\ \E i \in XrwSent : lab.headers[i].value = "xmlhttprequest"
    /\ lab.res.error = "Missing or invalid X-Requested-With header"

\* --------------------------------------------------------------------- C30
\* the upload API judged a session cookie minted for the instance that
\* carries the counter the request read, with the stores answering
C30_ValidCookie ==
    /\ ApiGated /\ HeaderDecodes /\ rq.env.secretUp
    /\ MintedFor(Sent, rq.instance.id)
    /\ Sent.text.p.tv = {ToUint32(rq.instance.tokenVersion)}
    /\ Sent.text.p.exp # {}

\* C30: the upload API accepts an otherwise valid session cookie at every
\* time now with now - 60 < exp.
C30_SkewTolerated ==
    (C30_ValidCookie /\ \A e \in Sent.text.p.exp : rq.now - ClockSkewSec < e) =>
        rq.api.ok

\* 59 seconds past exp: verifyJwtHs256 accepts the cookie with its 60 seconds of
\* skew (the page gate allows it), and the explicit comparison of exp with
\* nowSec() then refuses it as expired
C30_Failing ==
    /\ C30_ValidCookie
    /\ \A e \in Sent.text.p.exp : e < rq.now /\ rq.now - ClockSkewSec < e
    /\ ~rq.api.ok /\ rq.api.error = "Token expired"
    /\ rq.webhook.passwordProtected =>
          verifyAccessOrPasswordPage(rq.instance, rq.webhook, rq.event, rq.env,
                                     rq.now).ok

\* up to exp itself the upload API accepts
C30_UntilExp ==
    (C30_ValidCookie /\ \A e \in Sent.text.p.exp : rq.now =< e) => rq.api.ok

\* --------------------------------------------------------- the upload handlers
\* S3 keys and file names are sequences of characters.
\* S3_CONFIG.FILE_PREFIX as the deployment configures it
FilePrefix == <<"w", "/", "f">>

\* the characters of an instance id of the path
IdChars(instanceId) ==
    IF instanceId = "I1" THEN <<"I", "1">>
    ELSE IF instanceId = "I2" THEN <<"I", "2">>
    ELSE <<>>

\* the characters /[a-zA-Z0-9._-]/ among those a request uses
SafeChars == LowerLetters \cup DigitChars \cup {"1", "2", "I", ".", "_", "-"}

\* filename.replace(/[^a-zA-Z0-9._-]/g, "_")
Sanitize(filename) ==
    [i \in 1 .. Len(filename) |->
        IF filename[i] \in SafeChars THEN filename[i] ELSE "_"]

\* `${S3_CONFIG.FILE_PREFIX}/${instanceId}/`
ExpectedPrefix(instanceId) == FilePrefix \o <<"/">> \o IdChars(instanceId) \o <<"/">>

NoUpload == [statusCode |-> "", error |-> "", fileKey |-> <<>>]

UploadFail(statusCode, error) ==
    [NoUpload EXCEPT !.statusCode = statusCode, !.error = error]

\* handleUploadUrlRequest prefixing the key with the iid of the request body
handleUploadUrlRequestBodyIid(instanceId, authResult, body, stamp, signs) ==
    IF ~authResult.ok THEN UploadFail("401", authResult.error)
    ELSE IF ~body.parses THEN UploadFail("400", "Invalid request body")
    ELSE IF body.filename = <<>> THEN UploadFail("400", "Missing or invalid filename")
    ELSE IF body.contentLength = "bad" THEN UploadFail("400", "Invalid content length")
    ELSE IF ~signs THEN UploadFail("500", "Internal server error")
    ELSE [NoUpload EXCEPT
              !.statusCode = "200",
              !.fileKey = ExpectedPrefix(body.iid) \o stamp \o <<"/">>
                          \o Sanitize(body.filename)]

\* handleUploadUrlRequest after the path match and the CSRF guard (lines
\* 63-171): authResult is the verdict of verifyJWTForAPI(event, instanceId),
\* stamp is `${timestamp}-${randomId}`, signs tells whether getSignedUrl
\* answers
handleUploadUrlRequest(instanceId, authResult, body, stamp, signs) ==
    IF ~authResult.ok THEN UploadFail("401", authResult.error)
    ELSE IF ~body.parses THEN UploadFail("400", "Invalid request body")
    ELSE IF body.filename = <<>> THEN UploadFail("400", "Missing or invalid filename")
    ELSE IF body.contentLength = "bad" THEN UploadFail("400", "Invalid content length")
    ELSE IF ~signs THEN UploadFail("500", "Internal server error")
    ELSE [NoUpload EXCEPT
              !.statusCode = "200",
              !.fileKey = ExpectedPrefix(instanceId) \o stamp \o <<"/">>
                          \o Sanitize(body.filename)]

\* handleUploadCompleteRequest after the path match (lines 213-270)
handleUploadCompleteRequest(instanceId, authResult, body) ==
    IF ~authResult.ok THEN UploadFail("401", authResult.error)
    ELSE IF ~body.parses THEN UploadFail("400", "Invalid request body")
    ELSE IF body.fileKey = <<>> THEN UploadFail("400", "Missing or invalid fileKey")
    ELSE IF ~StartsWith(body.fileKey, ExpectedPrefix(instanceId))
    THEN UploadFail("403", "Invalid fileKey for this instance")
    ELSE [NoUpload EXCEPT !.statusCode = "200", !.fileKey = body.fileKey]

\* ------------------------------------------------------------ the upload bench
\* file names a client can ask for: plain, with path separators and parent
\* directories aiming at the other instance, with a backslash, none
FileNames ==
    {<<"a", ".", "b">>,
     <<".", ".", "/", ".", ".", "/", "I", "2", "/", "a">>,
     <<"/", "a">>,
     <<".", ".", "\\", "a">>,
     <<".", ".">>,
     <<>>}

Stamps == {<<"8", "-", "a">>, <<"3", "-", "e">>}

\* file keys a client can report: one under each instance's prefix, one that
\* leaves its prefix through "..", one under an id that begins with the
\* instance's, the bare prefix directory, none
FileKeys ==
    {ExpectedPrefix(i) \o <<"8", "-", "a", "/", "a">> : i \in Instances}
    \cup {ExpectedPrefix(i) \o <<".", ".", "/", "I", "2", "/", "a">> : i \in Instances}
    \cup {FilePrefix \o <<"/">> \o IdChars(i) \o <<"0", "/", "a">> : i \in Instances}
    \cup {FilePrefix \o <<"/">> \o IdChars(i) : i \in Instances}
    \cup {<<>>}

\* the session cookie sent under the cookie name of the instance of the path:
\* none, the one minted for that instance, the one minted for the other
UploadCookies(i) ==
    {NoCookie} \cup
    {MintSessionCookie(instances[j], webhooks[instances[j].WebhookID], nowSec).value :
        j \in Instances}

NoBody ==
    [parses |-> TRUE, iid |-> "", filename |-> <<>>, contentLength |-> "absent",
     fileKey |-> <<>>]

UploadIdle ==
    [pc |-> "idle", op |-> "", instanceId |-> "", cookie |-> NoCookie,
     auth |-> NoApi, body |-> NoBody, res |-> NoUpload]

InitUpload ==
    /\ instances = InitInstances
    /\ webhooks = InitWebhooks([passwordProtected |-> TRUE,
                                authenticationType |-> ""],
                               [ClientID |-> "B", passwordProtected |-> TRUE])
    /\ users = InitUsers
    /\ submits = [i \in Instances |-> 0]
    /\ tick = 0
    /\ jar = [n \in CookieNames |-> NoCookie]
    /\ rq = Idle
    /\ served = 0
    /\ lab = UploadIdle

\* verifyJWTForAPI(event, instanceId) for the cookie sent
UploadAuth(i, c) ==
    verifyJWTForAPI(instances[i], webhooks[instances[i].WebhookID],
                    [NoEvent EXCEPT !.cookies = WithCookie(instances[i], c)],
                    NoEnv, nowSec)

\* POST /instance/{instanceId}/upload-url
UploadUrl ==
    /\ lab.pc = "idle"
    /\ \E i \in Instances, parses \in BOOLEAN, f \in FileNames, j \in Instances,
          n \in {"absent", "ok", "bad"}, stamp \in Stamps, signs \in BOOLEAN :
       \E c \in UploadCookies(i) :
          LET body == [NoBody EXCEPT !.parses = parses, !.iid = j, !.filename = f,
                                     !.contentLength = n]
          IN lab' = [pc |-> "answered", op |-> "upload-url", instanceId |-> i,
                     cookie |-> c, auth |-> UploadAuth(i, c), body |-> body,
                     res |-> handleUploadUrlRequest(i, UploadAuth(i, c), body,
                                                    stamp, signs)]
    /\ UNCHANGED serverVars

\* POST /instance/{instanceId}/upload-complete
UploadComplete ==
    /\ lab.pc = "idle"
    /\ \E i \in Instances, parses \in BOOLEAN, k \in FileKeys :
       \E c \in UploadCookies(i) :
          LET body == [NoBody EXCEPT !.parses = parses, !.fileKey = k]
          IN lab' = [pc |-> "answered", op |-> "upload-complete", instanceId |-> i,
                     cookie |-> c, auth |-> UploadAuth(i, c), body |-> body,
                     res |-> handleUploadCompleteRequest(i, UploadAuth(i, c), body)]
    /\ UNCHANGED serverVars

UploadAgain ==
    /\ lab.pc = "answered"
    /\ lab' = UploadIdle
    /\ UNCHANGED serverVars

NextUpload == UploadUrl \/ UploadComplete \/ UploadAgain

SpecUpload == InitUpload /\ [][NextUpload]_vars

\* --------------------------------------------------------------------- C31
\* the session cookie of the request was minted for the instance of the path
\* and carries its counter
C31_Authenticated ==
    /\ MintedFor(lab.cookie, lab.instanceId)
    /\ lab.cookie.text.p.tv = {ToUint32(instances[lab.instanceId].tokenVersion)}

\* the part of the key after the instance's prefix: the stamp, one "/", and a
\* file name without "/"
C31_InsidePrefix(key, i) ==
    /\ StartsWith(key, ExpectedPrefix(i))
    /\ LET tail == From(key, Len(ExpectedPrefix(i)) + 1)
           cut == IndexOfAny(tail, {"/"})
       IN /\ cut > 1
          /\ SubSeq(tail, 1, cut - 1) \in Stamps
          /\ IndexOfAny(From(tail, cut + 1), {"/"}) = 0

C31_Refused ==
    /\ lab.pc = "answered" /\ lab.op = "upload-complete"
    /\ lab.instanceId = "I1" /\ lab.auth.ok
    /\ StartsWith(lab.body.fileKey, ExpectedPrefix("I2"))
    /\ lab.res.statusCode = "403"

\* --------------------------------------------------------------------- C32
\* a GET rendered the page or a POST form submission was processed
C32_Served ==
    /\ Done /\ ~rq.event.auth
    /\ \/ rq.op = "GET" /\ rq.resp.statusCode = "200" /\ rq.resp.body = "page"
       \/ rq.op = "POST" /\ rq.resp.statusCode = "200" /\ rq.resp.body = "success"

\* the identity check of the request reported authenticated and authorized
C32_IdentityPassed == rq.gate.ok /\ rq.gate.branch = "user"

\* C32: for a webhook in user mode a GET renders the page and a POST form
\* submission is processed only if the identity check of that request
\* reported authenticated and authorized.
C32_UserModeGated ==
    (C32_Served /\ rq.webhook.authenticationType = "user") => C32_IdentityPassed

\* the GET entry point alone
C32_GetGated ==
    (C32_Served /\ rq.op = "GET" /\ rq.webhook.authenticationType = "user") =>
        C32_IdentityPassed

\* a POST without any credential to a user-mode webhook that is not
\* passwordProtected: the gate is not asked and the submission is recorded
C32_Failing ==
    /\ C32_Served /\ rq.op = "POST"
    /\ rq.webhook.authenticationType = "user" /\ ~rq.webhook.passwordProtected
    /\ rq.event.cookies.idToken.esc = "absent"
    /\ rq.event.cookies.refreshToken.esc = "absent"
    /\ rq.gate = NoGate
    /\ submits[rq.instance.id] > 0

\* --------------------------------------------------------------------- C33
\* C33: for a password-protected webhook the page gate returns ALLOW or DENY
\* for every Cookie header and every query token; it never throws to the
\* handler.
C33_GateReturnsVerdict ==
    SessionGated => ~rq.gate.threw

\* a Cookie header in which a pair other than the session cookie holds a
\* malformed percent escape: getCookieMap throws before either branch is
\* entered and the handler's caller answers 400
C33_Failing ==
    /\ SessionGated
    /\ rq.event.cookies.junk
    /\ \A n \in CookieNames : rq.event.cookies.session[n].esc # "bad"
    /\ rq.gate.threw /\ rq.gate.branch = "cookies"
    /\ rq.resp.threw /\ rq.resp.statusCode = "400"

\* whenever the Cookie header decodes the gate returns a verdict
C33_DecodedHeader ==
    (SessionGated /\ HeaderDecodes) => ~rq.gate.threw

\* --------------------------------------------------------------------- C34
\* a request without query token to a password-protected webhook that is not
\* in user mode
C34_CookieOnly ==
    /\ Done /\ ~rq.event.auth
    /\ rq.webhook.passwordProtected /\ rq.webhook.authenticationType # "user"
    /\ ~QsPresent(rq.event)

C34_ApiAccepts ==
    verifyJWTForAPI(rq.instance, rq.webhook, rq.event, rq.env, rq.now).ok

C34_PageAllows ==
    LET g == verifyAccessOrPasswordPage(rq.instance, rq.webhook, rq.event, rq.env,
                                        rq.now)
    IN g.ok /\ ~g.threw

\* C34: for every session cookie, instance state and time, on a
\* password-protected webhook with no query token, the upload API gate
\* accepts the request iff the page gate ALLOWs it.
C34_GatesAgree ==
    C34_CookieOnly => (C34_ApiAccepts <=> C34_PageAllows)

\* a GET allowed by the cookie branch 59 seconds after the cookie's exp, which
\* the upload API gate refuses as expired
C34_Failing ==
    /\ C34_CookieOnly /\ rq.op = "GET"
    /\ rq.gate.ok /\ rq.gate.branch = "cookie"
    /\ \A e \in Sent.text.p.exp : e < rq.now /\ rq.now - ClockSkewSec < e
    /\ verifyJWTForAPI(rq.instance, rq.webhook, rq.event, rq.env, rq.now).error
          = "Token expired"

\* the two gates agree at every instant up to the cookie's exp and from
\* exp + 60 on
C34_OutsideSkew ==
    (C34_CookieOnly /\ \A e \in Sent.text.p.exp :
                          rq.now =< e \/ rq.now - ClockSkewSec >= e) =>
        (C34_ApiAccepts <=> C34_PageAllows)

\* --------------------------------------------------------------------- C35
\* a GET or a form submission that the page gate did not allow
C35_Denied == SessionGated /\ ~rq.gate.ok

\* the request presents a credential minted under a counter below the one it
\* read, and no other credential: no password, and beside a stale cookie no
\* query token or a stale link, beside a stale link no cookie or a stale one
C35_OnlyStale ==
    /\ Done /\ ~rq.event.auth
    /\ rq.webhook.passwordProtected /\ rq.webhook.authenticationType # "user"
    /\ C25_StaleCookie \/ C25_StaleLink
    /\ C25_StaleCookie \/ Sent.esc = "absent"
    /\ C25_StaleLink \/ ~QsPresent(rq.event)

\* what every reachable request satisfies
C35_NoRefresh ==
    /\ C35_Denied => ~rq.resp.setCookie.present
    /\ C35_OnlyStale =>
          /\ ~rq.gate.ok /\ ~rq.api.ok
          /\ ~rq.resp.setCookie.present
          /\ rq.resp.body \notin {"page", "success"}

\* the response to a denied request leaves the client's cookies as they were
C35_JarKept ==
    (C35_Denied /\ rq'.pc = "idle") => jar' = jar

\* C35: a denied GET or POST never sets the session cookie, so a client that
\* holds only credentials minted under counter N is, once the counter has
\* moved past N, never allowed and never given a new session cookie, however
\* many requests it sends.
C35_RevocationOutlivesRefresh == [] C35_NoRefresh /\ [][C35_JarKept]_vars

\* the second request of a client whose cookie was revoked: denied, no
\* Set-Cookie, and its jar still holds the revoked cookie
C35_Witness ==
    /\ served >= 1
    /\ C35_OnlyStale /\ C35_Denied /\ rq.op = "GET"
    /\ C25_StaleCookie /\ ~QsPresent(rq.event)
    /\ jar[cookieNameFor(rq.instance.id)] = Sent
    /\ ~rq.resp.setCookie.present
    /\ rq.resp.body = "PASSWORD_PAGE_HTML"

\* --------------------------------------------------------------------- C36
\* the session cookie the response of the request sets
C36_Minted == rq.resp.setCookie.value

\* the counter was bumped after the request loaded the instance
C36_Raced ==
    ToUint32(rq.instance.tokenVersion) < ToUint32(instances[rq.instance.id].tokenVersion)

\* a request that reads the instance now and sends the cookie is refused by
\* both gates
C36_RejectedNow ==
    LET ev == [NoEvent EXCEPT !.cookies = WithCookie(rq.instance, C36_Minted)]
        instance == instances[rq.instance.id]
        webhook == [rq.webhook EXCEPT !.passwordProtected = TRUE]
    IN /\ ~verifyAccessOrPasswordPage(instance, webhook, ev, NoEnv, nowSec).ok
       /\ ~verifyJWTForAPI(instance, webhook, ev, NoEnv, nowSec).ok

\* C36: a session cookie minted by a request carries as tv the counter that
\* request read when it loaded the instance; when the counter was bumped
\* between that read and the mint, the cookie is refused by every request
\* that reads the bumped counter.
C36_MintBumpRace ==
    (Done /\ rq.resp.setCookie.present) =>
        /\ MintedFor(C36_Minted, rq.instance.id)
        /\ C36_Minted.text.p.tv = {ToUint32(rq.instance.tokenVersion)}
        /\ C36_Raced => C36_RejectedNow

\* a password exchange whose instance was bumped after it was loaded: the
\* cookie it sets carries the old counter and is refused at once
C36_Witness ==
    /\ Done /\ rq.event.auth /\ rq.resp.setCookie.present
    /\ C36_Raced
    /\ C36_Minted.text.p.tv = {ToUint32(rq.instance.tokenVersion)}
    /\ C36_RejectedNow

\* --------------------------------------------------------------------- C37
\* the step in which handleGetRequest runs
C37_GetStep == rq.pc = "loaded" /\ rq'.pc = "done" /\ rq'.op = "GET"

\* numberOfVisits of a record, a missing attribute counting as 0
C37_Visits(rec) == IF rec.numberOfVisits = {} THEN 0 ELSE Only(rec.numberOfVisits)

\* a denied GET writes nothing and answers with the challenge; an allowed GET
\* adds one to the visit counter of its instance, sets lastPingedAt and
\* writes nothing else
C37_GetWrites ==
    C37_GetStep =>
        LET id == rq.instance.id
        IN /\ ~rq'.gate.ok =>
                 /\ instances' = instances /\ submits' = submits
                 /\ ~rq'.gate.threw =>
                       /\ rq'.resp.statusCode = "200"
                       /\ rq'.resp.body = rq'.gate.html
           /\ rq'.gate.ok =>
                 /\ C37_Visits(instances'[id]) = C37_Visits(instances[id]) + 1
                 /\ instances'[id].lastPingedAt = {nowSec}
                 /\ instances' =
                       [instances EXCEPT
                           ![id].numberOfVisits = instances'[id].numberOfVisits,
                           ![id].lastPingedAt = instances'[id].lastPingedAt]
                 /\ submits' = submits

\* C37: when the gate denies a GET the handler returns the challenge page
\* without incrementing the instance's visit counter or updating
\* lastPingedAt, and an allowed GET increments the visit counter exactly once.
C37_DeniedGetChangesNothing == [][C37_GetWrites]_vars

\* a denied GET of an instance that an earlier allowed GET had visited once:
\* the counter still reads 1
C37_Witness ==
    /\ SessionGated /\ rq.op = "GET"
    /\ ~rq.gate.ok /\ ~rq.gate.threw
    /\ rq.resp.body = "PASSWORD_PAGE_HTML"
    /\ instances[rq.instance.id].numberOfVisits = {1}
    /\ served = 1

\* --------------------------------------------------------------------- C38
\* the subject of the ID token the identity provider verified for the request
C38_Subject == rq.env.verify1.sub

\* the gate loaded the user record
C38_Loaded ==
    \E k \in 1 .. Len(rq.gate.calls) : rq.gate.calls[k] = "users.get"

\* the request sent an ID token that the provider verified, and no user
\* record exists for its subject
C38_NoRecord ==
    /\ UserGated
    /\ rq.event.cookies.idToken.esc = "none"
    /\ rq.env.verify1.ok
    /\ C38_Subject \notin DOMAIN users

\* C38: whenever the gate ALLOWs for a user-mode webhook, the user record of
\* the token's subject was loaded and that user is an admin or has the
\* ClientID of the webhook; a verified token whose user record is missing
\* never yields ALLOW.
C38_AllowImpliesAuthorized ==
    /\ (UserGated /\ rq.gate.ok) =>
          /\ rq.env.verify1.ok
          /\ C38_Loaded
          /\ C38_Subject \in DOMAIN users
          /\ rq.gate.user.found
          /\ rq.gate.user.type = users[C38_Subject].type
          /\ rq.gate.user.ClientID = users[C38_Subject].ClientID
          /\ \/ users[C38_Subject].type = "admin"
             \/ users[C38_Subject].ClientID = rq.webhook.ClientID
    /\ C38_NoRecord => ~rq.gate.ok

\* a user of the webhook's tenant, not an admin, is allowed
C38_Witness ==
    /\ UserGated /\ rq.gate.ok
    /\ rq.gate.user.type = "user"
    /\ rq.gate.user.ClientID = rq.webhook.ClientID
    /\ C38_Loaded

\* a verified token of a subject without user record is shown the access
\* denied page
C38_Ghost ==
    /\ C38_NoRecord /\ HeaderDecodes
    /\ ~rq.gate.ok /\ rq.gate.html = "ACCESS_DENIED_PAGE_HTML"

\* ------------------------------------------------- the width of the counter
\* Counters beyond the range of the other specifications.  A number n is the
\* record [over |-> k, bytes |-> <<b3, b2, b1, b0>>] with
\* n = k * 2^32 + b3 * 2^24 + b2 * 2^16 + b1 * 2^8 + b0 and every byte in
\* 0 .. 255; k is negative for negative numbers.  An optional number is {} or
\* {n}.
Byte == 256

Num(over, b3, b2, b1, b0) == [over |-> over, bytes |-> <<b3, b2, b1, b0>>]

WideZero == Num(0, 0, 0, 0, 0)

\* n + 1, the carry running through the bytes into the part above 2^32
Inc(n) ==
    LET b == n.bytes
        c4 == IF b[4] = Byte - 1 THEN 1 ELSE 0
        c3 == IF c4 = 1 /\ b[3] = Byte - 1 THEN 1 ELSE 0
        c2 == IF c3 = 1 /\ b[2] = Byte - 1 THEN 1 ELSE 0
        c1 == IF c2 = 1 /\ b[1] = Byte - 1 THEN 1 ELSE 0
    IN [over |-> n.over + c1,
        bytes |-> <<(b[1] + c2) % Byte, (b[2] + c3) % Byte,
                    (b[3] + c4) % Byte, (b[4] + 1) % Byte>>]

\* x >>> 0 that leaves the number as it is
UnsignedShiftKeeping(x) == IF x = {} THEN WideZero ELSE Only(x)

\* x >>> 0 of an optional number: ToUint32 keeps the number modulo 2^32, and
\* undefined >>> 0 = 0
UnsignedShift(x) ==
    IF x = {} THEN WideZero ELSE [over |-> 0, bytes |-> Only(x).bytes]

\* lines 118-123 of the cookie branch, for a cookie whose verification
\* returned v: the instance and the counter comparison
CookieClaims(v, instance) ==
    IF ~v.ok THEN [ok |-> FALSE, html |-> "PASSWORD_PAGE_HTML"]
    ELSE IF v.payload.iid # instance.id
    THEN [ok |-> FALSE, html |-> "PASSWORD_PAGE_HTML"]
    ELSE IF UnsignedShift(v.payload.tv) # UnsignedShift(instance.tokenVersion)
    THEN [ok |-> FALSE, html |-> "PASSWORD_PAGE_HTML"]
    ELSE [ok |-> TRUE, html |-> ""]

\* the payload both handlers mint: { iid: instance.id, tv: tokenVersion >>> 0 }
MintPayload(instance) ==
    [iid |-> instance.id, tv |-> {UnsignedShift(instance.tokenVersion)}]

MaxWideBumps == 2

\* counters around the ends of the unsigned 32-bit range
WideCounters ==
    {Num(0, 0, 0, 0, 0), Num(0, 0, 0, 0, 1), Num(0, 0, 0, 255, 255),
     Num(0, 127, 255, 255, 255), Num(0, 255, 255, 255, 254),
     Num(1, 0, 0, 0, 0), Num(2, 0, 0, 0, 1), Num(-1, 255, 255, 255, 255)}

WideOptional == {{}} \cup {{n} : n \in WideCounters}

NoVerified == [ok |-> FALSE, payload |-> [iid |-> "", tv |-> {}]]

WideIdle(tokenVersion, bumps) ==
    [pc |-> "idle", op |-> "", tokenVersion |-> tokenVersion, bumps |-> bumps,
     v |-> NoVerified, res |-> [ok |-> FALSE, html |-> ""]]

InitWide ==
    /\ instances = InitInstances
    /\ webhooks = InitWebhooks([passwordProtected |-> TRUE,
                                authenticationType |-> ""],
                               [ClientID |-> "B", passwordProtected |-> TRUE])
    /\ users = InitUsers
    /\ submits = [i \in Instances |-> 0]
    /\ tick = 0
    /\ jar = [n \in CookieNames |-> NoCookie]
    /\ rq = Idle
    /\ served = 0
    /\ \E t \in WideOptional : lab = WideIdle(t, 0)

\* the instance "I1" with the counter of the bench
WideInstance == [instances["I1"] EXCEPT !.tokenVersion = lab.tokenVersion]

\* a handler mints the session cookie and the browser sends it back at once
WideMint ==
    /\ lab.pc = "idle"
    /\ LET v == [ok |-> TRUE, payload |-> MintPayload(WideInstance)]
       IN lab' = [lab EXCEPT !.pc = "answered", !.op = "mint", !.v = v,
                             !.res = CookieClaims(v, WideInstance)]
    /\ UNCHANGED serverVars

\* the gate reads a cookie whose verification returned v: any instance, any
\* counter the holder of the key signed
WideGate ==
    /\ lab.pc = "idle"
    /\ \E ok \in BOOLEAN, i \in Instances, tv \in WideOptional :
          LET v == [ok |-> ok, payload |-> [iid |-> i, tv |-> tv]]
          IN lab' = [lab EXCEPT !.pc = "answered", !.op = "gate", !.v = v,
                                !.res = CookieClaims(v, WideInstance)]
    /\ UNCHANGED serverVars

\* revocation: tokenVersion = tokenVersion + 1, a missing attribute counting 0
WideBump ==
    /\ lab.pc = "idle"
    /\ lab.bumps < MaxWideBumps
    /\ lab' = WideIdle({Inc(UnsignedShiftKeeping(lab.tokenVersion))},
                       lab.bumps + 1)
    /\ UNCHANGED serverVars

WideAgain ==
    /\ lab.pc = "answered"
    /\ lab' = WideIdle(lab.tokenVersion, lab.bumps)
    /\ UNCHANGED serverVars

NextWide == WideMint \/ WideGate \/ WideBump \/ WideAgain

SpecWide == InitWide /\ [][NextWide]_vars

\* --------------------------------------------------------------------- C39
\* two optional numbers are equal modulo 2^32, a missing one counting as 0:
\* they differ by a multiple of 2^32 exactly when their low four bytes agree
C39_EqualMod32(x, y) ==
    LET a == IF x = {} THEN WideZero ELSE Only(x)
        b == IF y = {} THEN WideZero ELSE Only(y)
    IN \A k \in 1 .. 4 : a.bytes[k] = b.bytes[k]

\* the gate read a verified cookie of the instance
C39_Verified ==
    /\ lab.pc = "answered"
    /\ lab.v.ok
    /\ lab.v.payload.iid = WideInstance.id

\* C39: the page gate accepts a validly signed cookie of the instance if and
\* only if claims.tv and the instance's revocation counter are equal modulo
\* 2^32, a missing counter counting as 0; a minted cookie carries the counter
\* modulo 2^32, a number of the unsigned 32-bit range.
C39_Unsigned32 ==
    /\ C39_Verified =>
          (lab.res.ok <=> C39_EqualMod32(lab.v.payload.tv, lab.tokenVersion))
    /\ (lab.pc = "answered" /\ lab.op = "mint") =>
          /\ lab.v.payload.tv # {}
          /\ Only(lab.v.payload.tv).over = 0
          /\ C39_EqualMod32(lab.v.payload.tv, lab.tokenVersion)
          /\ lab.res.ok

\* a cookie of counter 0 is accepted once the counter reached 2^32
C39_Witness ==
    /\ C39_Verified /\ lab.op = "gate"
    /\ lab.v.payload.tv = {WideZero}
    /\ lab.tokenVersion = {Num(1, 0, 0, 0, 0)}
    /\ lab.bumps > 0
    /\ lab.res.ok

\* a cookie minted at a counter above the range carries the counter's low
\* four bytes
C39_MintedWrapped ==
    /\ lab.pc = "answered" /\ lab.op = "mint"
    /\ lab.tokenVersion = {Num(2, 0, 0, 0, 1)}
    /\ lab.v.payload.tv = {Num(0, 0, 0, 0, 1)}

\* a missing counter accepts the cookie of counter 0 and no other
C39_MissingIsZero ==
    (C39_Verified /\ lab.tokenVersion = {}) =>
        (lab.res.ok <=> (lab.v.payload.tv \in {{}, {WideZero}, {Num(1, 0, 0, 0, 0)}}))

====
